---- MODULE Spec2Model ----
(***************************************************************************)
(* A model of the AgentBox job scheduler (src/src/scheduler.ts).           *)
(*                                                                         *)
(* The scheduler is single-threaded JavaScript: every public method runs   *)
(* to completion, and the only asynchronous steps are the promise          *)
(* callbacks that startJob() chains on a body's promise:                   *)
(*     execute().then(onFulfilled).catch(onRejected).finally(onFinally)    *)
(* onFinally runs two microtask turns after onFulfilled, so other code     *)
(* (for instance whoever awaits the job's promise) can run in between.     *)
(* The model therefore has one step for the then/catch callback and a      *)
(* separate step for the finally callback.                                 *)
(*                                                                         *)
(* Event handlers subscribed on the bus are taken not to throw and not to  *)
(* call back into the scheduler.                                           *)
(*                                                                         *)
(* The second half models ExecutionContext.run()                           *)
(* (src/src/execution-context.ts) around that scheduler: validation,       *)
(* materialization, the jobs of the static units, the units' executors     *)
(* with addClaim() and spawnAgent() (src/src/agent-runtime.ts), budgets    *)
(* (src/src/policy-enforcer.ts), the claim graph (src/src/claim-graph.ts)  *)
(* and the events with their correlation ids.  Spec and LiveSpec are the   *)
(* scheduler alone; RunSpec is one run of the pipeline.                    *)
(*                                                                         *)
(* The components have specifications of their own: ClaimSpec is one       *)
(* ClaimGraph, RouterSpec one MessageRouter with a clock, BudgetSpec a run *)
(* with usage accounting, ControlSpec a run under pause(), resume() and    *)
(* cancel(), TeamSpec one call of createTeam(), and BoxSpec the run()      *)
(* calls made on one AgentBox (src/src/agent-box.ts), which may overlap.   *)
(***************************************************************************)
EXTENDS Integers, Sequences, FiniteSets, TLC

\* ---------------------------------------------------------------- bounds
\* Number of jobs enqueued over one execution.
MaxJobs == 2
\* Largest concurrency bound (maxParallel) tried.
MaxParallel == 2
\* How many cancel(jobId) calls may hit a job that is already running.
MaxCancelCalls == 1

VARIABLES
    queue,        \* Scheduler.queue: job ids, head first
    running,      \* Scheduler.running: job ids in Map insertion order
    allJobs,      \* Scheduler.allJobs: job ids in enqueue order
    maxParallel,  \* Scheduler.maxParallel
    paused,       \* Scheduler.paused
    job,          \* the Job objects: id -> [status, result, error]
    promise,      \* the JobHandle promises: id -> [state, value]
    settleCalls,  \* id -> number of resolve()/reject() calls made on the promise
    body,         \* id -> progress of execute() and of the callbacks chained on it
    events,       \* id -> the job:* events emitted for that job, in order
    started,      \* job ids in the order execute() was invoked
    runningCancels, \* number of cancel(jobId) calls that found jobId running
    agents,       \* AgentRegistry.listAgents(): the statically declared units
    phase,        \* how far ExecutionContext.run() has got
    status,       \* ExecutionContext.status
    correlationId, \* ExecutionContext.correlationId
    budgets,      \* PolicyEnforcer.budgets: unit name -> budget record
    handlers,     \* MessageRouter.handlers: the unit names with a handler
    policies,     \* MessageRouter.policies: the unit names with a policy
    claims,       \* ClaimGraph.claims, in Map insertion order
    log,          \* unit name (or "run") -> the events emitted about it, in order
    exec,         \* job id -> the unit the job runs and how far its body has got
    outcome,      \* the promise returned by run(), or by createTeam()
    router,       \* MessageRouter: the clock, the rate limits and the sends
    box           \* AgentBox: its registry, currentContext and the runs made on it

\* The state of the execution pipeline around the scheduler.
pipeVars == <<agents, phase, status, correlationId, budgets, handlers,
              policies, claims, log, exec, outcome, router, box>>

\* The state of the scheduler.
schedVars == <<queue, running, allJobs, maxParallel, paused, job, promise,
               settleCalls, body, events, started, runningCancels>>

vars == <<queue, running, allJobs, maxParallel, paused, job, promise,
          settleCalls, body, events, started, runningCancels, pipeVars>>

JobIds == 1..MaxJobs

\* ------------------------------------------------------------ data types
TerminalStatus == {"completed", "cancelled", "failed"}

\* A Job before enqueue() created it.
NoJob == [status |-> "none", result |-> <<>>, error |-> <<>>]

\* const job: Job = { id, agentName, task, status: "pending", createdAt }
NewJob == [status |-> "pending", result |-> <<>>, error |-> <<>>]

NoPromise == [state |-> "none", value |-> <<>>]

PendingPromise == [state |-> "pending", value |-> <<>>]

\* What a body can do: return a value or throw an error with a message.
BodyOutcomes == {[ok |-> TRUE, val |-> <<"result">>], [ok |-> FALSE, val |-> <<"boom">>]}

\* new Error(`Job ${jobId} cancelled`).message, as its sequence of words.
CancelMessage(jobId) == <<"Job", ToString(jobId), "cancelled">>

\* String.prototype.includes on a message.
Contains(msg, word) == \E i \in 1..Len(msg) : msg[i] = word

\* Array.prototype.findIndex; 0 stands for -1.
FindIndex(seq, x) ==
    IF \E i \in 1..Len(seq) : seq[i] = x
    THEN CHOOSE i \in 1..Len(seq) : seq[i] = x /\ \A k \in 1..(i - 1) : seq[k] # x
    ELSE 0

\* Array.prototype.splice(idx, 1) and Map.prototype.delete.
Without(seq, x) == SelectSeq(seq, LAMBDA y : y # x)

Has(seq, x) == \E i \in 1..Len(seq) : seq[i] = x

Count(seq, x) == Cardinality({i \in 1..Len(seq) : seq[i] = x})

\* ------------------------------------------------- the scheduler's state
\* The methods below are functions from one scheduler state to the next.
State ==
    [queue |-> queue, running |-> running, allJobs |-> allJobs,
     maxParallel |-> maxParallel, paused |-> paused, job |-> job,
     promise |-> promise, settleCalls |-> settleCalls, body |-> body,
     events |-> events, started |-> started]

\* eventBus.emit("job:...", ...) for one job.
Emit(s, jobId, type) ==
    [s EXCEPT !.events[jobId] = Append(@, type)]

\* item.resolve(value): a promise settles at the first call only.
Resolve(s, jobId, value) ==
    [s EXCEPT !.promise[jobId] =
                  IF @.state = "pending" THEN [state |-> "fulfilled", value |-> value] ELSE @,
              !.settleCalls[jobId] = @ + 1]

\* item.reject(reason)
Reject(s, jobId, reason) ==
    [s EXCEPT !.promise[jobId] =
                  IF @.state = "pending" THEN [state |-> "rejected", value |-> reason] ELSE @,
              !.settleCalls[jobId] = @ + 1]

\* startJob that forgets item.job.status = "running".
startJobKeepsStatus(s, jobId) ==
    [s EXCEPT !.running = IF Has(@, jobId) THEN @ ELSE Append(@, jobId),
              !.body[jobId] = "executing",
              !.started = Append(@, jobId)]

\* startJob(item) up to and including the call of item.execute().
startJob(s, jobId) ==
    [s EXCEPT !.job[jobId].status = "running",
              !.running = IF Has(@, jobId) THEN @ ELSE Append(@, jobId),
              !.body[jobId] = "executing",
              !.started = Append(@, jobId)]

\* The loop of drain() without the running.size < maxParallel test.
RECURSIVE drainLoopUnbounded(_)
drainLoopUnbounded(s) ==
    IF Len(s.queue) > 0
    THEN drainLoopUnbounded(startJob([s EXCEPT !.queue = Tail(@)], Head(s.queue)))
    ELSE s

\* The loop of drain() with queue.pop() in place of queue.shift().
RECURSIVE drainLoopLast(_)
drainLoopLast(s) ==
    IF Len(s.running) < s.maxParallel /\ Len(s.queue) > 0
    THEN drainLoopLast(startJob([s EXCEPT !.queue = SubSeq(@, 1, Len(@) - 1)],
                                s.queue[Len(s.queue)]))
    ELSE s

RECURSIVE drainLoop(_)
drainLoop(s) ==
    IF Len(s.running) < s.maxParallel /\ Len(s.queue) > 0
    THEN drainLoop(startJob([s EXCEPT !.queue = Tail(@)], Head(s.queue)))
    ELSE s

\* drain() without the early return on paused.
drainIgnoresPause(s) == drainLoop(s)

drain(s) == IF s.paused THEN s ELSE drainLoop(s)

\* enqueue(): the new job gets the next unused id.
enqueue(s) ==
    LET id == Len(s.allJobs) + 1
        s1 == [s EXCEPT !.job[id] = NewJob,
                        !.allJobs = Append(@, id),
                        !.promise[id] = PendingPromise,
                        !.queue = Append(@, id)]
    IN  drain(Emit(s1, id, "scheduled"))

\* pause() that also empties the queue.
pauseDropsQueue(s) == [s EXCEPT !.paused = TRUE, !.queue = <<>>]

pause(s) == [s EXCEPT !.paused = TRUE]

\* resume() without its call of drain().
resumeNoDrain(s) == [s EXCEPT !.paused = FALSE]

resume(s) == drain([s EXCEPT !.paused = FALSE])

\* cancel(jobId), the branch for a job found in the queue.
cancelPending(s, jobId) ==
    LET s1 == [s EXCEPT !.queue = Without(@, jobId),
                        !.job[jobId].status = "cancelled"]
    IN  Reject(Emit(s1, jobId, "cancelled"), jobId, CancelMessage(jobId))

\* cancel(jobId), the branch for a job found in the running map.
cancelRunning(s, jobId) ==
    Emit([s EXCEPT !.job[jobId].status = "cancelled"], jobId, "cancelled")

\* cancel() that rejects the promise of a running job, as cancelAll() does.
cancelRejectsRunning(s, jobId) ==
    IF FindIndex(s.queue, jobId) # 0 THEN cancelPending(s, jobId)
    ELSE IF Has(s.running, jobId)
         THEN Reject(cancelRunning(s, jobId), jobId, CancelMessage(jobId))
    ELSE s

\* cancel() that looks the job up in allJobs instead of the running map.
cancelAnyKnown(s, jobId) ==
    IF FindIndex(s.queue, jobId) # 0 THEN cancelPending(s, jobId)
    ELSE IF Has(s.allJobs, jobId) THEN cancelRunning(s, jobId)
    ELSE s

\* cancel() that leaves a pending job in the queue.
cancelKeepsQueued(s, jobId) ==
    IF FindIndex(s.queue, jobId) # 0
    THEN [cancelPending(s, jobId) EXCEPT !.queue = s.queue]
    ELSE IF Has(s.running, jobId) THEN cancelRunning(s, jobId)
    ELSE s

cancel(s, jobId) ==
    IF FindIndex(s.queue, jobId) # 0 THEN cancelPending(s, jobId)
    ELSE IF Has(s.running, jobId) THEN cancelRunning(s, jobId)
    ELSE s

\* cancel(jobId) takes its second branch.
hitsRunning(s, jobId) == FindIndex(s.queue, jobId) = 0 /\ Has(s.running, jobId)

\* One iteration of either loop of cancelAll().
cancelOne(s, jobId) ==
    Reject(Emit([s EXCEPT !.job[jobId].status = "cancelled"], jobId, "cancelled"),
           jobId, CancelMessage(jobId))

RECURSIVE cancelEach(_, _)
cancelEach(s, items) ==
    IF items = <<>> THEN s ELSE cancelEach(cancelOne(s, Head(items)), Tail(items))

RECURSIVE markEach(_, _)
markEach(s, items) ==
    IF items = <<>> THEN s ELSE markEach(cancelRunning(s, Head(items)), Tail(items))

\* cancelAll() that only marks the running jobs, without rejecting them.
cancelAllMarksRunning(s) ==
    LET s1 == [cancelEach(s, s.queue) EXCEPT !.queue = <<>>]
    IN  [markEach(s1, s1.running) EXCEPT !.running = <<>>]

\* cancelAll() without its second loop.
cancelAllSkipsRunning(s) ==
    [cancelEach(s, s.queue) EXCEPT !.queue = <<>>, !.running = <<>>]

cancelAll(s) ==
    LET s1 == [cancelEach(s, s.queue) EXCEPT !.queue = <<>>]
    IN  [cancelEach(s1, s1.running) EXCEPT !.running = <<>>]

\* The then callback resolving with the Job's previous result field instead
\* of the value the body returned.
onFulfilledResolvesStale(s, jobId, result) ==
    LET s1 == [s EXCEPT !.job[jobId].status = "completed",
                        !.job[jobId].result = result,
                        !.body[jobId] = "settled"]
    IN  Resolve(Emit(s1, jobId, "completed"), jobId, s.job[jobId].result)

\* .then((result) => ...)
onFulfilled(s, jobId, result) ==
    LET s1 == [s EXCEPT !.job[jobId].status = "completed",
                        !.job[jobId].result = result,
                        !.body[jobId] = "settled"]
    IN  Resolve(Emit(s1, jobId, "completed"), jobId, result)

\* .catch((err) => ...)
onRejected(s, jobId, err) ==
    LET s1 == [s EXCEPT !.job[jobId].status = "failed",
                        !.job[jobId].error = err,
                        !.body[jobId] = "settled"]
    IN  Reject(Emit(s1, jobId, "completed"), jobId, err)

\* The finally callback without its call of drain().
onFinallyNoDrain(s, jobId) ==
    [s EXCEPT !.running = Without(@, jobId), !.body[jobId] = "done"]

\* .finally(() => ...)
onFinally(s, jobId) ==
    drain([s EXCEPT !.running = Without(@, jobId), !.body[jobId] = "done"])

\* =========================================================== the pipeline
\* ExecutionContext.run() (src/src/execution-context.ts) around the scheduler,
\* with the units' bodies and AgentRuntime.spawnAgent().  Between two awaits
\* JavaScript runs without interruption, so each step below is one such
\* stretch of code.

\* ---------------------------------------------------------------- bounds
\* Number of spawnAgent() calls over one run.
MaxSpawns == 2
\* Number of addClaim() calls over one run.
MaxClaims == 1

\* An optional value: undefined, or a value.
None == <<>>

Some(x) == <<x>>

Range(seq) == {seq[i] : i \in 1..Len(seq)}

\* The names of the statically declared units, in registration order.
StaticNames == <<"A", "B">>

\* The names given to spawned units, in the order of the spawnAgent() calls.
SpawnNames == <<"C", "D", "E", "F">>

UnitNames == Range(StaticNames) \cup Range(SpawnNames)

\* A run has one job per static unit and one per spawnAgent() call.
RunJobIds == 1..(Len(StaticNames) + MaxSpawns)

\* The tools and the MCP servers registered in the AgentRegistry.
RegisteredTools == {"search"}

RegisteredMCPs == {}

\* The value of randomUUID() in run(), and any other randomUUID().
RunId == "run-uuid"

FreshId == "other-uuid"

\* The ClaimGraph instances a runtime could hold: the one that the
\* ExecutionContext constructs, or one of its own.
ContextGraph == "context"

GraphIds == {ContextGraph} \cup UnitNames

\* AgentDefinition, as far as the pipeline reads it.
Policy(allowlist, maxTokens) ==
    [toolAllowlist |-> allowlist, maxTokens |-> maxTokens, maxCost |-> None]

Definition(name, tools, mcpServers, policy, executor) ==
    [name |-> name, tools |-> tools, mcpServers |-> mcpServers,
     policy |-> policy, executor |-> executor]

\* The values of policy.maxTokens tried.
TokenLimits == {None, Some(0)}

\* The values of policy.toolAllowlist tried.
Allowlists == {None, Some(<<>>), Some(<<"search">>), Some(<<"calculator">>)}

\* The confidence of a new claim, in tenths; 0.5 is the default.
Confidences == {5, 9}

\* A unit without a body of its own (the default stub), with any mix of tool
\* references and allowlist.
StubDefinitions(name) ==
    {Definition(name, tools, mcps, Policy(allowlist, None), FALSE) :
        tools \in {<<>>, <<"search">>, <<"ghost">>},
        mcps \in {<<>>, <<"ghost-mcp">>},
        allowlist \in Allowlists}

\* A unit with an executor and no tools, with any token limit.
ExecutorDefinitions(name) ==
    {Definition(name, <<>>, <<>>, Policy(None, maxTokens), TRUE) :
        maxTokens \in TokenLimits}

\* What the default stub returns.
StubResult == <<"agentName", "task", "toolCount">>

\* ------------------------------------------------------------- event bus
Event(type, cid, arg) == [type |-> type, correlationId |-> cid, arg |-> arg]

\* EventBus.meta(): correlationId ?? randomUUID()
meta(cid) == IF cid = None THEN FreshId ELSE cid[1]

\* EventBus.emit(type, payload, correlationId), filed under the unit (or
\* "run") that the payload names.
emit(lg, source, type, cid, arg) ==
    [lg EXCEPT ![source] = Append(@, Event(type, meta(cid), arg))]

\* The events of one type in a sequence of events.
OfType(evs, type) == SelectSeq(evs, LAMBDA e : e.type = type)

\* ------------------------------------------------------------ validation
\* The first element of seq that is not in set, if any.
FirstNotIn(seq, set) ==
    IF \E i \in 1..Len(seq) : seq[i] \notin set
    THEN Some(seq[CHOOSE i \in 1..Len(seq) :
                    /\ seq[i] \notin set
                    /\ \A k \in 1..(i - 1) : seq[k] \in set])
    ELSE None

\* validateToolAllowlist(agent): the message of the error thrown, or <<>>.
validateToolAllowlist(agent) ==
    LET allowlist == agent.policy.toolAllowlist
    IN  IF allowlist = None \/ Len(allowlist[1]) = 0 THEN <<>>
        ELSE LET bad == FirstNotIn(agent.tools, Range(allowlist[1]))
             IN  IF bad = None THEN <<>>
                 ELSE <<"Agent", agent.name, "tool", bad[1], "is not on the toolAllowlist">>

\* The body of the loop of validate() for one agent.
validateAgent(agent) ==
    LET badTool == FirstNotIn(agent.tools, RegisteredTools)
        badMCP == FirstNotIn(agent.mcpServers, RegisteredMCPs)
    IN  IF badTool # None
        THEN <<"Agent", agent.name, "references unknown tool", badTool[1]>>
        ELSE IF badMCP # None
        THEN <<"Agent", agent.name, "references unknown MCP", badMCP[1]>>
        ELSE validateToolAllowlist(agent)

\* validate(): the message of the first error thrown, or <<>>.
RECURSIVE validate(_)
validate(list) ==
    IF list = <<>> THEN <<>>
    ELSE IF validateAgent(Head(list)) # <<>> THEN validateAgent(Head(list))
    ELSE validate(Tail(list))

\* ---------------------------------------------------------------- budgets
\* PolicyEnforcer.registerAgent(agentName, policy)
registerAgent(b, name, policy) ==
    [b EXCEPT ![name] = Some([policy |-> policy, tokensUsed |-> 0, costUsed |-> 0])]

\* checkBudget() with > in place of >=.
checkBudgetAbove(b, name) ==
    IF b[name] = None THEN <<>>
    ELSE LET budget == b[name][1]
         IN  IF /\ budget.policy.maxTokens # None
                /\ budget.tokensUsed > budget.policy.maxTokens[1]
             THEN <<"Agent", name, "exceeded token budget">>
             ELSE IF /\ budget.policy.maxCost # None
                     /\ budget.costUsed > budget.policy.maxCost[1]
             THEN <<"Agent", name, "exceeded cost budget">>
             ELSE <<>>

\* PolicyEnforcer.checkBudget(agentName): the message of the error thrown,
\* or <<>>.
checkBudget(b, name) ==
    IF b[name] = None THEN <<>>
    ELSE LET budget == b[name][1]
         IN  IF /\ budget.policy.maxTokens # None
                /\ budget.tokensUsed >= budget.policy.maxTokens[1]
             THEN <<"Agent", name, "exceeded token budget",
                    ToString(budget.tokensUsed), ToString(budget.policy.maxTokens[1]),
                    "tokens used">>
             ELSE IF /\ budget.policy.maxCost # None
                     /\ budget.costUsed >= budget.policy.maxCost[1]
             THEN <<"Agent", name, "exceeded cost budget",
                    ToString(budget.costUsed), ToString(budget.policy.maxCost[1]), "used">>
             ELSE <<>>

\* PolicyEnforcer.addTokenUsage(agentName, tokens)
addTokenUsage(b, name, tokens) ==
    IF b[name] = None THEN b
    ELSE [b EXCEPT ![name] = Some([@[1] EXCEPT !.tokensUsed = @ + tokens])]

\* PolicyEnforcer.addCostUsage(agentName, cost)
addCostUsage(b, name, cost) ==
    IF b[name] = None THEN b
    ELSE [b EXCEPT ![name] = Some([@[1] EXCEPT !.costUsed = @ + cost])]

\* PolicyEnforcer.getUsage(agentName): None for an unknown unit.
getUsage(b, name) ==
    IF b[name] = None THEN None
    ELSE Some([tokensUsed |-> b[name][1].tokensUsed, costUsed |-> b[name][1].costUsed])

\* PolicyEnforcer.clear()
clear(b) == [n \in DOMAIN b |-> None]

\* ------------------------------------------------------------ claim graph
\* ClaimGraph.addClaim(statement, author, evidence, confidence) on the
\* claims of one graph; the position in the graph stands for the random id.
addClaim(cs, statement, author, confidence) ==
    Append(cs, [id |-> Len(cs) + 1, statement |-> statement, author |-> author,
                confidence |-> confidence, links |-> <<>>])

\* ClaimGraph.listClaims()
listClaims(cs) == cs

\* Confidence is counted in tenths, the step of challengeClaim() and
\* supportClaim(): 7 stands for 0.7.
ConfidenceStep == 1
ConfidenceFloor == 0
ConfidenceCeiling == 10
ConsensusThreshold == 7

Max(a, b) == IF a >= b THEN a ELSE b
Min(a, b) == IF a <= b THEN a ELSE b

\* ClaimGraph.getClaim(id) !== undefined
hasClaim(cs, id) == \E i \in 1..Len(cs) : cs[i].id = id

\* What a graph operation that may throw leaves behind: the claims, and the
\* message of the error thrown or <<>>.
GraphResult(cs, error) == [claims |-> cs, error |-> error]

\* addLink() if it stored the link before it looked for the target.
addLinkBeforeCheck(cs, targetId, sourceId, type) ==
    LET pushed == [i \in 1..Len(cs) |->
                     IF cs[i].id = sourceId
                     THEN [cs[i] EXCEPT !.links = Append(@, [targetClaimId |-> targetId,
                                                            type |-> type])]
                     ELSE cs[i]]
    IN  IF ~hasClaim(cs, targetId) \/ ~hasClaim(cs, sourceId)
        THEN GraphResult(pushed, <<"Claim not found",
                                   ToString(IF ~hasClaim(cs, targetId) THEN targetId
                                                                       ELSE sourceId)>>)
        ELSE GraphResult(pushed, <<>>)

\* ClaimGraph.addLink(targetId, sourceId, type): the link is stored on the
\* source claim; the error names the target when it is missing, else the
\* source.
addLink(cs, targetId, sourceId, type) ==
    IF ~hasClaim(cs, targetId) \/ ~hasClaim(cs, sourceId)
    THEN GraphResult(cs, <<"Claim not found",
                           ToString(IF ~hasClaim(cs, targetId) THEN targetId ELSE sourceId)>>)
    ELSE GraphResult(
           [i \in 1..Len(cs) |->
              IF cs[i].id = sourceId
              THEN [cs[i] EXCEPT !.links = Append(@, [targetClaimId |-> targetId,
                                                     type |-> type])]
              ELSE cs[i]],
           <<>>)

\* target.confidence = value, for the claim with that id.
setConfidence(cs, id, value) ==
    [i \in 1..Len(cs) |->
       IF cs[i].id = id THEN [cs[i] EXCEPT !.confidence = value] ELSE cs[i]]

\* this.claims.get(id), for an id that is there.
getClaim(cs, id) == cs[CHOOSE i \in 1..Len(cs) : cs[i].id = id]

\* ClaimGraph.challengeClaim(targetClaimId, challengerClaimId)
challengeClaim(cs, targetClaimId, challengerClaimId) ==
    LET linked == addLink(cs, targetClaimId, challengerClaimId, "challenges")
    IN  IF linked.error # <<>> THEN linked
        ELSE GraphResult(
               setConfidence(linked.claims, targetClaimId,
                   Max(ConfidenceFloor,
                       getClaim(linked.claims, targetClaimId).confidence - ConfidenceStep)),
               <<>>)

\* ClaimGraph.supportClaim(targetClaimId, supporterClaimId)
supportClaim(cs, targetClaimId, supporterClaimId) ==
    LET linked == addLink(cs, targetClaimId, supporterClaimId, "supports")
    IN  IF linked.error # <<>> THEN linked
        ELSE GraphResult(
               setConfidence(linked.claims, targetClaimId,
                   Min(ConfidenceCeiling,
                       getClaim(linked.claims, targetClaimId).confidence + ConfidenceStep)),
               <<>>)

\* summarize(): the ids that some claim's "challenges" link points at.
challengedIds(cs) ==
    {l.targetClaimId : l \in {m \in UNION {Range(c.links) : c \in Range(cs)} :
                                 m.type = "challenges"}}

\* The claims of a list, each replaced by its statement: .map(c => c.statement)
statements(cs) == [i \in 1..Len(cs) |-> cs[i].statement]

\* summarize() if it took every confident claim, challenged or not, into the
\* consensus.
consensusIgnoresChallenges(cs) ==
    SelectSeq(listClaims(cs), LAMBDA c : c.confidence >= ConsensusThreshold)

\* summarize(): the claims that make up the consensus list.
consensusClaims(cs) ==
    SelectSeq(listClaims(cs),
              LAMBDA c : c.confidence >= ConsensusThreshold /\ c.id \notin challengedIds(cs))

\* summarize(): the claims that make up the conflicts list.
conflictClaims(cs) ==
    SelectSeq(listClaims(cs), LAMBDA c : c.id \in challengedIds(cs))

\* ClaimGraph.summarize().consensus
consensus(cs) == statements(consensusClaims(cs))

\* ClaimGraph.summarize().conflicts
conflicts(cs) == statements(conflictClaims(cs))

\* One step of Array.prototype.sort((a, b) => b.confidence - a.confidence),
\* which is stable: c goes behind the claims that are at least as confident.
insertClaim(sorted, c) ==
    LET k == Cardinality({i \in 1..Len(sorted) : sorted[i].confidence >= c.confidence})
    IN  SubSeq(sorted, 1, k) \o <<c>> \o SubSeq(sorted, k + 1, Len(sorted))

RECURSIVE sortClaims(_)
sortClaims(cs) ==
    IF cs = <<>> THEN <<>>
    ELSE insertClaim(sortClaims(SubSeq(cs, 1, Len(cs) - 1)), cs[Len(cs)])

\* ClaimGraph.summarize().claims
summarize(cs) == sortClaims(listClaims(cs))

\* --------------------------------------------------------- message router
\* Time is counted in steps of half a second; Date.now() is in milliseconds.
TickMs == 500
\* checkRateLimit() counts the sends with now - t < 1000.
WindowMs == 1000
\* recordSend() keeps the timestamps with now - t < 2000.
KeepMs == 2000

\* A MessageRouter without policies and sends.  sent is the time of every
\* send that succeeded (the router itself forgets them after two seconds),
\* attempts the number of sendMessage() calls, error the message of the
\* error that the last call threw, or <<>>, and effects what the calls did
\* to the outside, in order: an event emitted or the handler invoked.
NoRouter ==
    [now |-> 0, limit |-> [n \in UnitNames |-> None],
     sendTimestamps |-> [n \in UnitNames |-> <<>>],
     sent |-> [n \in UnitNames |-> <<>>], attempts |-> 0, error |-> <<>>,
     effects |-> <<>>]

\* timestamps.filter((t) => now - t < span)
recent(timestamps, now, span) == SelectSeq(timestamps, LAMBDA t : now - t < span)

\* checkRateLimit() with > in place of >=.
checkRateLimitAbove(r, name) ==
    IF r.limit[name] = None THEN <<>>
    ELSE IF Len(recent(r.sendTimestamps[name], r.now, WindowMs)) > r.limit[name][1]
         THEN <<"Rate limit exceeded for agent", name>>
         ELSE <<>>

\* MessageRouter.checkRateLimit(agentName): the message of the error thrown,
\* or <<>>.
checkRateLimit(r, name) ==
    IF r.limit[name] = None THEN <<>>
    ELSE IF Len(recent(r.sendTimestamps[name], r.now, WindowMs)) >= r.limit[name][1]
         THEN <<"Rate limit exceeded for agent", name,
                ToString(r.limit[name][1]), "messages/second">>
         ELSE <<>>

\* MessageRouter.recordSend(agentName)
recordSend(r, name) ==
    [r EXCEPT !.sendTimestamps[name] = Append(recent(@, r.now, KeepMs), r.now),
              !.sent[name] = Append(@, r.now)]

\* MessageRouter.setPolicy(agentName, policy), for policy.maxMessagesPerSecond
setPolicy(r, name, maxMessagesPerSecond) ==
    [r EXCEPT !.limit[name] = maxMessagesPerSecond]

\* sendMessage() if it recorded the timestamp before the rate-limit check.
sendMessageRecordsFirst(r, hs, lg, from, to) ==
    LET err == checkRateLimit(r, from)
        tried == [recordSend(r, from) EXCEPT !.attempts = @ + 1, !.error = err,
                                             !.sent = r.sent]
        sentLog == emit(lg, from, "message:sent", None, <<to>>)
    IN  IF err # <<>> THEN [router |-> tried, log |-> lg]
        ELSE IF to \in hs
             THEN [router |-> [tried EXCEPT !.sent[from] = Append(@, r.now),
                                            !.effects = @ \o <<"message:sent", "handler",
                                                               "message:received">>],
                   log |-> emit(sentLog, to, "message:received", None, <<from>>)]
             ELSE [router |-> [tried EXCEPT !.sent[from] = Append(@, r.now),
                                            !.effects = Append(@, "message:sent")],
                   log |-> sentLog]

\* MessageRouter.sendMessage(from, to, payload) on the router r, the
\* handlers hs and the log lg.  Both calls of Date.now() give the same time.
\* A rejected call throws out of checkRateLimit(); an accepted one records
\* the send, emits "message:sent" and, with a handler for the recipient,
\* invokes it and emits "message:received".
sendMessage(r, hs, lg, from, to) ==
    LET err == checkRateLimit(r, from)
        tried == [r EXCEPT !.attempts = @ + 1, !.error = err]
        sentLog == emit(lg, from, "message:sent", None, <<to>>)
    IN  IF err # <<>> THEN [router |-> tried, log |-> lg]
        ELSE IF to \in hs
             THEN [router |-> [recordSend(tried, from) EXCEPT
                                 !.effects = @ \o <<"message:sent", "handler",
                                                    "message:received">>],
                   log |-> emit(sentLog, to, "message:received", None, <<from>>)]
             ELSE [router |-> [recordSend(tried, from) EXCEPT
                                 !.effects = Append(@, "message:sent")],
                   log |-> sentLog]

\* ------------------------------------------------------- jobs and bodies
\* What the closure handed to enqueue() holds, and how far it has got:
\* waiting (not invoked), threw (the budget check threw), running (inside
\* the executor), returned (the stub returned), over (its promise settled).
NoExec ==
    [unit |-> "", parent |-> "", kind |-> "none", executor |-> FALSE,
     correlationId |-> None, claimGraph |-> "", thrown |-> <<>>, state |-> "none"]

NewExec(definition, parent, kind, cid, graph) ==
    [unit |-> definition.name, parent |-> parent, kind |-> kind,
     executor |-> definition.executor, correlationId |-> cid,
     claimGraph |-> graph, thrown |-> <<>>, state |-> "waiting"]

\* The promise of run() before it settles.
NoOutcome ==
    [state |-> "pending", status |-> "", claims |-> <<>>, jobResults |-> <<>>,
     value |-> <<>>, error |-> <<>>]

\* ------------------------------------------------------------- AgentBox
\* Number of run() calls made on one AgentBox.
MaxRuns == 2
\* Number of spawnAgent() calls, from a body or through the AgentBox.
MaxBoxSpawns == 1
\* Number of control calls (pause, resume, cancel, injectMessage).
MaxControls == 1

\* MASTER_AGENT_NAME, registered by the constructor of AgentBox.
MasterAgentName == "MasterAgent"

\* An ExecutionContext that no run() call has created yet.  declared is the
\* set of units registered by the caller when run() was called, agents the
\* list that materializeAgents() took from the registry, jobs the jobs
\* enqueued on the context's scheduler, in order.
NoContext == [state |-> "none", declared |-> {}, agents |-> <<>>, jobs |-> <<>>]

\* new AgentBox(): the registry holds the MasterAgent, currentContext is
\* null (0).  declared is the set of units registered by the constructor or
\* by defineAgent().build(), spawnCalls the number of spawnAgent() calls,
\* controls the number of control calls and missed whether one of them found
\* no context although a run was in flight.
NoBox ==
    [registry |-> <<MasterAgentName>>, declared |-> {MasterAgentName},
     currentContext |-> 0, ctx |-> [r \in 1..MaxRuns |-> NoContext],
     spawnCalls |-> 0, controls |-> 0, missed |-> FALSE]

\* Registry.registerAgent(def), for a name that is not registered.
registryRegisterAgent(b, name) == [b EXCEPT !.registry = Append(@, name)]

\* Registry.hasAgent(name)
hasAgent(b, name) == \E i \in 1..Len(b.registry) : b.registry[i] = name

\* ExecutionContext.spawnAgent() and AgentRuntime.spawnAgent() on the
\* context of run r: the unit is registered when it is new, and one job is
\* enqueued on the scheduler of the context.
spawnOnContext(b, r, name) ==
    LET registered == IF hasAgent(b, name) THEN b ELSE registryRegisterAgent(b, name)
    IN  [registered EXCEPT
           !.ctx[r].jobs = Append(@, [unit |-> name, kind |-> "spawned"]),
           !.spawnCalls = @ + 1]

\* materializeAgents() and executeAgents() of run r: the agents are those
\* that registry.listAgents() returns, and one job is enqueued for each.
executeOnContext(b, r) ==
    [b EXCEPT !.ctx[r].state = "executing",
              !.ctx[r].agents = b.registry,
              !.ctx[r].jobs = @ \o [i \in 1..Len(b.registry) |->
                                      [unit |-> b.registry[i], kind |-> "static"]]]

\* The pipeline before run() is called.
NoPipeline(ids, list) ==
    /\ agents = list
    /\ phase = "idle"
    /\ status = "idle"
    /\ correlationId = None
    /\ budgets = [n \in UnitNames |-> None]
    /\ handlers = {}
    /\ policies = {}
    /\ claims = [g \in GraphIds |-> <<>>]
    /\ log = [n \in UnitNames \cup {"run"} |-> <<>>]
    /\ exec = [j \in ids |-> NoExec]
    /\ outcome = NoOutcome
    /\ router = NoRouter
    /\ box = NoBox

\* The pipeline's mutable state next to the scheduler's.
Pipe ==
    [budgets |-> budgets, handlers |-> handlers, policies |-> policies,
     claims |-> claims, log |-> log, exec |-> exec]

World == [s |-> State, p |-> Pipe]

\* The job ids of the statically declared units, in enqueue order.
StaticJobs(x) ==
    LET RECURSIVE upTo(_)
        upTo(n) == IF n = 0 THEN <<>>
                   ELSE IF n \in DOMAIN x /\ x[n].kind = "static"
                        THEN Append(upTo(n - 1), n) ELSE upTo(n - 1)
    IN  upTo(Cardinality(DOMAIN x))

\* The body handed to enqueue(), after its budget check.
executeUnchecked(p, jobId) ==
    LET x == p.exec[jobId]
        p1 == [p EXCEPT !.log = emit(emit(@, x.unit, "agent:started", x.correlationId, <<>>),
                                     x.unit, "agent:thinking", x.correlationId, <<>>)]
    IN  IF x.executor THEN [p1 EXCEPT !.exec[jobId].state = "running"]
        ELSE [p1 EXCEPT !.log = emit(@, x.unit, "agent:idle", x.correlationId, <<>>),
                        !.exec[jobId].state = "returned"]

\* The body handed to enqueue(), from its invocation by startJob() to its
\* first await: the budget check, agent:started, agent:thinking and, for a
\* unit without an executor, the stub's return.
execute(p, jobId) ==
    LET x == p.exec[jobId]
        err == checkBudget(p.budgets, x.unit)
    IN  IF err # <<>>
        THEN [p EXCEPT !.exec[jobId].thrown = err, !.exec[jobId].state = "threw"]
        ELSE executeUnchecked(p, jobId)

RECURSIVE executeEach(_, _)
executeEach(p, jobIds) ==
    IF jobIds = <<>> THEN p ELSE executeEach(execute(p, Head(jobIds)), Tail(jobIds))

\* The jobs that a scheduler call started, with their bodies invoked.
Started(w, s1, p1) ==
    [s |-> s1,
     p |-> executeEach(p1, SubSeq(s1.started, Len(w.s.started) + 1, Len(s1.started)))]

\* scheduler.enqueue(name, task, execute, correlationId)
enqueueJob(w, x) ==
    Started(w, enqueue(w.s), [w.p EXCEPT !.exec[Len(w.s.allJobs) + 1] = x])

\* spawnAgent() that starts the child at once, without the scheduler's queue.
spawnAgentDirectly(w, parentJob, definition) ==
    LET parent == w.p.exec[parentJob]
        id == Len(w.s.allJobs) + 1
        s1 == [w.s EXCEPT !.job[id] = NewJob,
                          !.allJobs = Append(@, id),
                          !.promise[id] = PendingPromise]
        p1 == [w.p EXCEPT
                 !.budgets = registerAgent(@, definition.name, definition.policy),
                 !.handlers = @ \cup {definition.name},
                 !.policies = @ \cup {definition.name},
                 !.log = emit(@, definition.name, "agent:spawned",
                              parent.correlationId, <<parent.unit>>),
                 !.exec[id] = NewExec(definition, parent.unit, "spawned",
                                      parent.correlationId, parent.claimGraph)]
    IN  Started(w, startJob(Emit(s1, id, "scheduled"), id), p1)

\* spawnAgent() that hands the child a claim graph of its own.
spawnAgentOwnGraph(w, parentJob, definition) ==
    LET parent == w.p.exec[parentJob]
        p1 == [w.p EXCEPT
                 !.budgets = registerAgent(@, definition.name, definition.policy),
                 !.handlers = @ \cup {definition.name},
                 !.policies = @ \cup {definition.name},
                 !.log = emit(@, definition.name, "agent:spawned",
                              parent.correlationId, <<parent.unit>>)]
    IN  enqueueJob([s |-> w.s, p |-> p1],
                   NewExec(definition, parent.unit, "spawned",
                           parent.correlationId, definition.name))

\* AgentRuntime.spawnAgent(definition, task), called by the body of parentJob.
spawnAgent(w, parentJob, definition) ==
    LET parent == w.p.exec[parentJob]
        p1 == [w.p EXCEPT
                 !.budgets = registerAgent(@, definition.name, definition.policy),
                 !.handlers = @ \cup {definition.name},
                 !.policies = @ \cup {definition.name},
                 !.log = emit(@, definition.name, "agent:spawned",
                              parent.correlationId, <<parent.unit>>)]
    IN  enqueueJob([s |-> w.s, p |-> p1],
                   NewExec(definition, parent.unit, "spawned",
                           parent.correlationId, parent.claimGraph))

\* ------------------------------------------------------------------ teams
\* { ...shared, ...own }: a field the unit's own policy sets wins.
mergePolicy(shared, own) ==
    [f \in DOMAIN own |-> IF own[f] # None THEN own[f] ELSE shared[f]]

\* TeamConfig; a manager without an executor gets the default one.
TeamConfig(name, manager, members, policy) ==
    [name |-> name, manager |-> manager, members |-> members, policy |-> policy]

\* createTeam(): membersWithPolicy
membersWithPolicy(config) ==
    [i \in 1..Len(config.members) |->
       [config.members[i] EXCEPT !.policy = mergePolicy(config.policy, @)]]

\* createTeam(): managerDef
managerDef(config) ==
    [config.manager EXCEPT !.policy = mergePolicy(config.policy, @), !.executor = TRUE]

\* The caller of createTeam() on the context.
SystemParent == "__system__"

\* ExecutionContext.spawnAgent(definition, task, parentAgent)
ctxSpawnAgent(w, cid, definition, parentAgent) ==
    LET p1 == [w.p EXCEPT
                 !.budgets = registerAgent(@, definition.name, definition.policy),
                 !.handlers = @ \cup {definition.name},
                 !.policies = @ \cup {definition.name},
                 !.log = emit(@, definition.name, "agent:spawned", cid, <<parentAgent>>)]
    IN  enqueueJob([s |-> w.s, p |-> p1],
                   NewExec(definition, parentAgent, "spawned", cid, ContextGraph))

\* membersWithPolicy.map((member) => runtime.spawnAgent(member, teamTask))
RECURSIVE spawnEach(_, _, _)
spawnEach(w, parentJob, definitions) ==
    IF definitions = <<>> THEN w
    ELSE spawnEach(spawnAgent(w, parentJob, Head(definitions)), parentJob, Tail(definitions))

\* What JSON.stringify would show of { error: message }.
ErrorResult(message) == ToString([error |-> message])

\* The default manager's return value that leaves the failed members out.
defaultManagerSkipsFailures(s, memberJobs) ==
    LET kept == SelectSeq(memberJobs, LAMBDA j : s.promise[j].state = "fulfilled")
    IN  [i \in 1..Len(kept) |-> ToString(s.promise[kept[i]].value)]

\* The default manager body after await Promise.allSettled(...): one entry
\* per member, the value of a fulfilled one and { error } of a rejected one.
defaultManagerResult(s, memberJobs) ==
    [i \in 1..Len(memberJobs) |->
       IF s.promise[memberJobs[i]].state = "fulfilled"
       THEN ToString(s.promise[memberJobs[i]].value)
       ELSE ErrorResult(s.promise[memberJobs[i]].value)]

\* ExecutionContext.createTeam(config, task) up to its await: team:created,
\* the spawn of the manager and, when the manager's job starts at once, the
\* default manager body up to its await.
createTeam(w, cid, config) ==
    LET id == Len(w.s.allJobs) + 1
        w0 == [w EXCEPT !.p.log = emit(@, "run", "team:created", cid, <<config.name>>)]
        w1 == ctxSpawnAgent(w0, cid, managerDef(config), SystemParent)
    IN  IF w1.p.exec[id].state = "running"
        THEN spawnEach(w1, id, membersWithPolicy(config))
        ELSE w1

\* The statement every executor of a run puts forward.
RunStatement == "finding"

\* AgentRuntime.addClaim(statement, evidence, confidence), called by the
\* body of jobId; ClaimGraph.addClaim() emits without a correlation id.
runtimeAddClaim(p, jobId, confidence) ==
    LET x == p.exec[jobId]
        id == Len(p.claims[x.claimGraph]) + 1
    IN  [p EXCEPT !.claims[x.claimGraph] = addClaim(@, RunStatement, x.unit, confidence),
                  !.log = emit(@, x.unit, "claim:created", None, <<ToString(id)>>)]

\* The promise of a body settles and the then or the catch callback of
\* startJob() runs.  out is what the executor does, if the body got that far.
settleBody(w, jobId, out) ==
    LET x == w.p.exec[jobId]
        over == [w.p EXCEPT !.exec[jobId].state = "over"]
    IN  IF x.state = "threw"
        THEN [s |-> onRejected(w.s, jobId, x.thrown), p |-> over]
        ELSE IF x.state = "returned"
        THEN [s |-> onFulfilled(w.s, jobId, StubResult), p |-> over]
        ELSE IF out.ok
        THEN [s |-> onFulfilled(w.s, jobId, out.val),
              p |-> [over EXCEPT !.log = emit(@, x.unit, "agent:idle", x.correlationId, <<>>)]]
        ELSE [s |-> onRejected(w.s, jobId, out.val), p |-> over]

\* The finally callback of startJob(); the jobs it starts run their bodies
\* up to the first await.
finishJob(w, jobId) == Started(w, onFinally(w.s, jobId), w.p)

\* materializeAgents(): registerHandler() and setPolicy() for every agent.
materializeAgents(p, list) ==
    [p EXCEPT !.handlers = @ \cup {list[i].name : i \in 1..Len(list)},
              !.policies = @ \cup {list[i].name : i \in 1..Len(list)}]

\* The first loop of executeAgents(): registerAgent() for every agent.
RECURSIVE registerBudgets(_, _)
registerBudgets(b, list) ==
    IF list = <<>> THEN b
    ELSE registerBudgets(registerAgent(b, Head(list).name, Head(list).policy), Tail(list))

\* The last loop of executeAgents() without its emit.
reportNoErrors(w, cid, handles) == w.p.log

\* The last loop of executeAgents(): agent:error for every rejected handle.
RECURSIVE reportErrors(_, _, _)
reportErrors(w, cid, handles) ==
    IF handles = <<>> THEN w.p.log
    ELSE LET lg == reportErrors(w, cid, SubSeq(handles, 1, Len(handles) - 1))
             h == handles[Len(handles)]
         IN  IF w.s.promise[h].state = "rejected"
             THEN emit(lg, w.p.exec[h].unit, "agent:error", cid, w.s.promise[h].value)
             ELSE lg

\* Scheduler.getAllJobs(): a copy of allJobs.
getAllJobs(w) == w.s.allJobs

\* run() from finalize on: the value that run() resolves with.
finalize(w) ==
    [state |-> "fulfilled", status |-> "completed",
     claims |-> summarize(w.p.claims[ContextGraph]),
     jobResults |-> getAllJobs(w), value |-> <<>>, error |-> <<>>]

\* ---------------------------------------------------------------- steps
Commit(s) ==
    /\ queue' = s.queue
    /\ running' = s.running
    /\ allJobs' = s.allJobs
    /\ maxParallel' = s.maxParallel
    /\ paused' = s.paused
    /\ job' = s.job
    /\ promise' = s.promise
    /\ settleCalls' = s.settleCalls
    /\ body' = s.body
    /\ events' = s.events
    /\ started' = s.started

Init ==
    /\ queue = <<>>
    /\ running = <<>>
    /\ allJobs = <<>>
    /\ maxParallel \in 1..MaxParallel
    /\ paused = FALSE
    /\ job = [j \in JobIds |-> NoJob]
    /\ promise = [j \in JobIds |-> NoPromise]
    /\ settleCalls = [j \in JobIds |-> 0]
    /\ body = [j \in JobIds |-> "idle"]
    /\ events = [j \in JobIds |-> <<>>]
    /\ started = <<>>
    /\ runningCancels = 0
    /\ NoPipeline(JobIds, <<>>)

\* scheduler.enqueue(...), by the pipeline or by spawnAgent inside a body.
Enqueue ==
    /\ Len(allJobs) < MaxJobs
    /\ Commit(enqueue(State))
    /\ UNCHANGED <<runningCancels, pipeVars>>

Pause ==
    /\ Commit(pause(State))
    /\ UNCHANGED <<runningCancels, pipeVars>>

Resume ==
    /\ Commit(resume(State))
    /\ UNCHANGED <<runningCancels, pipeVars>>

Cancel ==
    \E jobId \in JobIds :
        /\ hitsRunning(State, jobId) => runningCancels < MaxCancelCalls
        /\ Commit(cancel(State, jobId))
        /\ runningCancels' = IF hitsRunning(State, jobId) THEN runningCancels + 1
                                                          ELSE runningCancels
        /\ UNCHANGED pipeVars

CancelAll ==
    /\ Commit(cancelAll(State))
    /\ UNCHANGED <<runningCancels, pipeVars>>

\* A body's promise settles and the then or the catch callback runs.
BodySettles ==
    \E jobId \in JobIds, out \in BodyOutcomes :
        /\ body[jobId] = "executing"
        /\ Commit(IF out.ok THEN onFulfilled(State, jobId, out.val)
                            ELSE onRejected(State, jobId, out.val))
        /\ UNCHANGED <<runningCancels, pipeVars>>

\* The finally callback of a settled job runs.
Finally ==
    \E jobId \in JobIds :
        /\ body[jobId] = "settled"
        /\ Commit(onFinally(State, jobId))
        /\ UNCHANGED <<runningCancels, pipeVars>>

Next ==
    \/ Enqueue
    \/ Pause
    \/ Resume
    \/ Cancel
    \/ CancelAll
    \/ BodySettles
    \/ Finally

Spec == Init /\ [][Next]_vars

\* The scheduler when nobody cancels.
LiveNext ==
    \/ Enqueue
    \/ Pause
    \/ Resume
    \/ BodySettles
    \/ Finally

\* No cancellation; a paused scheduler is resumed at some time; every started
\* body settles on its own; the event loop runs every queued callback.
LiveSpec ==
    /\ Init
    /\ [][LiveNext]_vars
    /\ WF_vars(Resume)
    /\ WF_vars(BodySettles)
    /\ WF_vars(Finally)

\* ------------------------------------------------- the steps of one run
CommitPipe(p) ==
    /\ budgets' = p.budgets
    /\ handlers' = p.handlers
    /\ policies' = p.policies
    /\ claims' = p.claims
    /\ log' = p.log
    /\ exec' = p.exec

CommitWorld(w) == Commit(w.s) /\ CommitPipe(w.p)

\* The registries tried: two stub units with any references and allowlists,
\* or two units with executors, valid references and any token limits.
RunConfigs ==
    {<<a, b>> : a \in StubDefinitions(StaticNames[1]), b \in StubDefinitions(StaticNames[2])}
    \cup
    {<<a, b>> : a \in ExecutorDefinitions(StaticNames[1]),
                b \in ExecutorDefinitions(StaticNames[2])}

\* Number of spawnAgent() calls made so far.
SpawnCount == Len(allJobs) - Len(StaticJobs(exec))

RunInit ==
    /\ queue = <<>>
    /\ running = <<>>
    /\ allJobs = <<>>
    /\ maxParallel \in 1..MaxParallel
    /\ paused = FALSE
    /\ job = [j \in RunJobIds |-> NoJob]
    /\ promise = [j \in RunJobIds |-> NoPromise]
    /\ settleCalls = [j \in RunJobIds |-> 0]
    /\ body = [j \in RunJobIds |-> "idle"]
    /\ events = [j \in RunJobIds |-> <<>>]
    /\ started = <<>>
    /\ runningCancels = 0
    /\ \E list \in RunConfigs : NoPipeline(RunJobIds, list)

\* run() up to its first await: status, correlation id, run:started and
\* validate(); when validate() throws, the catch and finally blocks as well.
RunStart ==
    /\ phase = "idle"
    /\ LET cid == Some(RunId)
           err == validate(agents)
           lg == emit(log, "run", "run:started", cid, <<>>)
       IN  /\ correlationId' = cid
           /\ IF err = <<>>
              THEN /\ status' = "running"
                   /\ phase' = "validated"
                   /\ log' = lg
                   /\ UNCHANGED <<outcome, budgets>>
              ELSE /\ status' = "failed"
                   /\ phase' = "rejected"
                   /\ log' = emit(lg, "run", "run:completed", cid, <<"failed">>)
                   /\ outcome' = [NoOutcome EXCEPT !.state = "rejected", !.error = err]
                   /\ budgets' = clear(budgets)
    /\ UNCHANGED <<schedVars, agents, box, router, handlers, policies, claims, exec>>

\* run() after connectMCPServers(): materializeAgents().
Materialize ==
    /\ phase = "validated"
    /\ phase' = "materialized"
    /\ CommitPipe(materializeAgents(Pipe, agents))
    /\ UNCHANGED <<schedVars, agents, box, router, status, correlationId, outcome>>

\* executeAgents(), its first loop.
ExecuteAgents ==
    /\ phase = "materialized"
    /\ phase' = "enqueueing"
    /\ budgets' = registerBudgets(budgets, agents)
    /\ UNCHANGED <<schedVars, agents, box, router, status, correlationId, handlers, policies,
                   claims, log, exec, outcome>>

\* executeAgents(), one round of agents.map(): enqueue() for the next agent.
\* A job that starts at once runs its body up to the first await.
EnqueueStatic ==
    /\ phase = "enqueueing"
    /\ LET k == Len(StaticJobs(exec)) + 1
       IN  /\ CommitWorld(enqueueJob(World,
                 NewExec(agents[k], "", "static", correlationId, ContextGraph)))
           /\ phase' = IF k = Len(agents) THEN "awaiting" ELSE phase
    /\ UNCHANGED <<runningCancels, agents, box, router, status, correlationId, outcome>>

\* An executor calls runtime.addClaim().
BodyAddsClaim ==
    \E jobId \in DOMAIN exec, confidence \in Confidences :
        /\ exec[jobId].state = "running"
        /\ Len(claims[exec[jobId].claimGraph]) < MaxClaims
        /\ CommitPipe(runtimeAddClaim(Pipe, jobId, confidence))
        /\ UNCHANGED <<schedVars, agents, box, router, phase, status, correlationId, outcome>>

\* An executor calls runtime.spawnAgent(), awaiting the result or not.
BodySpawns ==
    \E jobId \in DOMAIN exec, maxTokens \in TokenLimits :
        /\ exec[jobId].state = "running"
        /\ SpawnCount < MaxSpawns
        /\ CommitWorld(spawnAgent(World, jobId,
              Definition(SpawnNames[SpawnCount + 1], <<>>, <<>>,
                         Policy(None, maxTokens), TRUE)))
        /\ UNCHANGED <<runningCancels, agents, box, router, phase, status, correlationId, outcome>>

\* The promise of a body settles: the executor returns or throws, or the
\* body is over already; then the then or the catch callback runs.  This
\* takes a turn of the event loop, which agents.map() does not yield.
RunBodySettles ==
    \E jobId \in DOMAIN exec, out \in BodyOutcomes :
        /\ body[jobId] = "executing"
        /\ phase # "enqueueing"
        /\ CommitWorld(settleBody(World, jobId, out))
        /\ UNCHANGED <<runningCancels, agents, box, router, phase, status, correlationId, outcome>>

\* The finally callback of a settled job runs.
RunFinally ==
    \E jobId \in DOMAIN exec :
        /\ body[jobId] = "settled"
        /\ phase # "enqueueing"
        /\ CommitWorld(finishJob(World, jobId))
        /\ UNCHANGED <<runningCancels, agents, box, router, phase, status, correlationId, outcome>>

\* executeAgents() after await Promise.allSettled(handles).
ReportErrors ==
    /\ phase = "awaiting"
    /\ \A h \in Range(StaticJobs(exec)) : promise[h].state \in {"fulfilled", "rejected"}
    /\ phase' = "reported"
    /\ log' = reportErrors(World, correlationId, StaticJobs(exec))
    /\ UNCHANGED <<schedVars, agents, box, router, status, correlationId, budgets, handlers,
                   policies, claims, exec, outcome>>

\* run() after await executeAgents(): finalize, run:completed, the return
\* and cleanup().  The finally callback of a static job ran before, unless
\* cancelAll() settled the job's promise, which the body may outlive.
Finalize ==
    /\ phase = "reported"
    /\ \A h \in Range(StaticJobs(exec)) :
          body[h] = "done" \/ promise[h].value = CancelMessage(h)
    /\ phase' = "finished"
    /\ status' = "completed"
    /\ outcome' = finalize(World)
    /\ log' = emit(log, "run", "run:completed", correlationId, <<"completed">>)
    /\ budgets' = clear(budgets)
    /\ UNCHANGED <<schedVars, agents, box, router, correlationId, handlers, policies, claims, exec>>

RunNext ==
    \/ RunStart
    \/ Materialize
    \/ ExecuteAgents
    \/ EnqueueStatic
    \/ BodyAddsClaim
    \/ BodySpawns
    \/ RunBodySettles
    \/ RunFinally
    \/ ReportErrors
    \/ Finalize

\* One call of run() on a fresh ExecutionContext.
RunSpec == RunInit /\ [][RunNext]_vars

\* ------------------------------------------- a run with usage accounting
\* Number of spawnAgent() calls in a run with usage accounting.
MaxBudgetSpawns == 1
\* Tokens, and cost, accounted to one unit.
MaxUsage == 1

\* The values of policy.maxTokens and policy.maxCost tried.
BudgetLimits == {None, Some(1)}

\* The tokens of one chat response, and the cost of one.
UsageStep == 1

BudgetPolicy(maxTokens, maxCost) == [Policy(None, maxTokens) EXCEPT !.maxCost = maxCost]
BudgetPolicies == {BudgetPolicy(t, c) : t \in BudgetLimits, c \in BudgetLimits}

\* The units of the run: the declared one, which may be spawned again, and
\* a new one; the last name is never registered.
BudgetNames == {StaticNames[1], SpawnNames[1]}
UnknownName == SpawnNames[2]

\* One declared unit with an executor and any limits; nothing has run.
BudgetInit ==
    /\ queue = <<>>
    /\ running = <<>>
    /\ allJobs = <<>>
    /\ maxParallel \in 1..MaxParallel
    /\ paused = FALSE
    /\ job = [j \in RunJobIds |-> NoJob]
    /\ promise = [j \in RunJobIds |-> NoPromise]
    /\ settleCalls = [j \in RunJobIds |-> 0]
    /\ body = [j \in RunJobIds |-> "idle"]
    /\ events = [j \in RunJobIds |-> <<>>]
    /\ started = <<>>
    /\ runningCancels = 0
    /\ \E policy \in BudgetPolicies :
          NoPipeline(RunJobIds, <<Definition(StaticNames[1], <<>>, <<>>, policy, TRUE)>>)

\* An executor calls runtime.spawnAgent() with the name of a unit that is
\* known already or with a new name.
BudgetSpawn ==
    \E jobId \in DOMAIN exec, name \in BudgetNames, policy \in BudgetPolicies :
        /\ exec[jobId].state = "running"
        /\ SpawnCount < MaxBudgetSpawns
        /\ CommitWorld(spawnAgent(World, jobId, Definition(name, <<>>, <<>>, policy, TRUE)))
        /\ UNCHANGED <<runningCancels, agents, box, router, phase, status, correlationId, outcome>>

\* The listener of startListening() sees a chat response of a unit, or a
\* caller accounts tokens directly: addTokenUsage(name, tokens).
BudgetAddTokens ==
    \E name \in BudgetNames \cup {UnknownName} :
        /\ budgets[name] # None => budgets[name][1].tokensUsed < MaxUsage
        /\ budgets' = addTokenUsage(budgets, name, UsageStep)
        /\ UNCHANGED <<schedVars, agents, box, router, phase, status, correlationId, handlers,
                       policies, claims, log, exec, outcome>>

\* addCostUsage(name, cost)
BudgetAddCost ==
    \E name \in BudgetNames \cup {UnknownName} :
        /\ budgets[name] # None => budgets[name][1].costUsed < MaxUsage
        /\ budgets' = addCostUsage(budgets, name, UsageStep)
        /\ UNCHANGED <<schedVars, agents, box, router, phase, status, correlationId, handlers,
                       policies, claims, log, exec, outcome>>

BudgetNext ==
    \/ RunStart
    \/ Materialize
    \/ ExecuteAgents
    \/ EnqueueStatic
    \/ BudgetSpawn
    \/ BudgetAddTokens
    \/ BudgetAddCost
    \/ RunBodySettles
    \/ RunFinally
    \/ ReportErrors
    \/ Finalize

\* One run of one declared unit, with spawns and usage accounting.
BudgetSpec == BudgetInit /\ [][BudgetNext]_vars

\* ------------------------------------------- a run under the control API
\* Two declared units with executors, without limits.
ControlConfig ==
    <<Definition(StaticNames[1], <<>>, <<>>, Policy(None, None), TRUE),
      Definition(StaticNames[2], <<>>, <<>>, Policy(None, None), TRUE)>>

ControlInit ==
    /\ queue = <<>>
    /\ running = <<>>
    /\ allJobs = <<>>
    /\ maxParallel \in 1..MaxParallel
    /\ paused = FALSE
    /\ job = [j \in RunJobIds |-> NoJob]
    /\ promise = [j \in RunJobIds |-> NoPromise]
    /\ settleCalls = [j \in RunJobIds |-> 0]
    /\ body = [j \in RunJobIds |-> "idle"]
    /\ events = [j \in RunJobIds |-> <<>>]
    /\ started = <<>>
    /\ runningCancels = 0
    /\ NoPipeline(RunJobIds, ControlConfig)

\* pause() if it changed the status of a running pipeline only.
CtxPauseIfRunning ==
    /\ phase # "enqueueing"
    /\ Commit(pause(State))
    /\ status' = IF status = "running" THEN "paused" ELSE status
    /\ UNCHANGED <<runningCancels, agents, box, router, phase, correlationId, budgets,
                   handlers, policies, claims, log, exec, outcome>>

\* ExecutionContext.pause(), between two stretches of run().
CtxPause ==
    /\ phase # "enqueueing"
    /\ Commit(pause(State))
    /\ status' = "paused"
    /\ UNCHANGED <<runningCancels, agents, box, router, phase, correlationId, budgets,
                   handlers, policies, claims, log, exec, outcome>>

\* ExecutionContext.resume(); the jobs that the scheduler starts run their
\* bodies up to the first await.
CtxResume ==
    /\ phase # "enqueueing"
    /\ CommitWorld(Started(World, resume(State), Pipe))
    /\ status' = "running"
    /\ UNCHANGED <<runningCancels, agents, box, router, phase, correlationId, outcome>>

\* ExecutionContext.cancel()
CtxCancel ==
    /\ phase # "enqueueing"
    /\ Commit(cancelAll(State))
    /\ status' = "cancelled"
    /\ UNCHANGED <<runningCancels, agents, box, router, phase, correlationId, budgets,
                   handlers, policies, claims, log, exec, outcome>>

ControlNext ==
    \/ RunStart
    \/ Materialize
    \/ ExecuteAgents
    \/ EnqueueStatic
    \/ RunBodySettles
    \/ RunFinally
    \/ ReportErrors
    \/ Finalize
    \/ CtxPause
    \/ CtxResume
    \/ CtxCancel

\* One call of run() with calls of pause(), resume() and cancel().
ControlSpec == ControlInit /\ [][ControlNext]_vars

\* ---------------------------------------------- a team on a fresh context
\* Number of members of the team.
TeamSize == 2

ManagerJob == 1

\* The jobs of the members, in member order.
MemberJobs == [i \in 1..(Len(allJobs) - 1) |-> allJobs[i + 1]]

\* A manager without an executor and members with executors, each with a
\* token limit of its own or none.
TeamConfigs ==
    {TeamConfig("team", Definition(StaticNames[1], <<>>, <<>>, Policy(None, None), FALSE),
                [i \in 1..TeamSize |->
                   Definition(SpawnNames[i], <<>>, <<>>, Policy(None, limit[i]), TRUE)],
                Policy(None, None)) :
       limit \in [1..TeamSize -> TokenLimits]}

TeamInit ==
    /\ queue = <<>>
    /\ running = <<>>
    /\ allJobs = <<>>
    /\ maxParallel \in 1..MaxParallel
    /\ paused = FALSE
    /\ job = [j \in RunJobIds |-> NoJob]
    /\ promise = [j \in RunJobIds |-> NoPromise]
    /\ settleCalls = [j \in RunJobIds |-> 0]
    /\ body = [j \in RunJobIds |-> "idle"]
    /\ events = [j \in RunJobIds |-> <<>>]
    /\ started = <<>>
    /\ runningCancels = 0
    /\ NoPipeline(RunJobIds, <<>>)

\* createTeam(config, task) is called on the context.
TeamCreate ==
    \E config \in TeamConfigs :
        /\ allJobs = <<>>
        /\ CommitWorld(createTeam(World, correlationId, config))
        /\ UNCHANGED <<runningCancels, agents, box, router, phase, status, correlationId, outcome>>

\* The body of a member settles: its executor returns or throws, or the
\* budget check threw.
TeamMemberSettles ==
    \E i \in 1..Len(MemberJobs), out \in BodyOutcomes :
        /\ body[MemberJobs[i]] = "executing"
        /\ CommitWorld(settleBody(World, MemberJobs[i], out))
        /\ UNCHANGED <<runningCancels, agents, box, router, phase, status, correlationId, outcome>>

\* scheduler.cancel(jobId) for the job of a member.
TeamCancel ==
    \E i \in 1..Len(MemberJobs) :
        LET jobId == MemberJobs[i]
        IN  /\ hitsRunning(State, jobId) => runningCancels < MaxCancelCalls
            /\ Commit(cancel(State, jobId))
            /\ runningCancels' = IF hitsRunning(State, jobId) THEN runningCancels + 1
                                                              ELSE runningCancels
            /\ UNCHANGED pipeVars

\* Promise.allSettled() of the members' futures has resolved and the default
\* manager body returns.
TeamManagerReturns ==
    /\ body[ManagerJob] = "executing"
    /\ \A i \in 1..Len(MemberJobs) : promise[MemberJobs[i]].state # "pending"
    /\ CommitWorld(settleBody(World, ManagerJob,
                              [ok |-> TRUE, val |-> defaultManagerResult(State, MemberJobs)]))
    /\ UNCHANGED <<runningCancels, agents, box, router, phase, status, correlationId, outcome>>

\* createTeam() after await this.spawnAgent(managerDef, ...): an array is
\* returned as it is.
TeamReturns ==
    /\ outcome.state = "pending"
    /\ promise[ManagerJob].state \in {"fulfilled", "rejected"}
    /\ outcome' = IF promise[ManagerJob].state = "fulfilled"
                  THEN [outcome EXCEPT !.state = "fulfilled",
                                       !.value = promise[ManagerJob].value]
                  ELSE [outcome EXCEPT !.state = "rejected",
                                       !.error = promise[ManagerJob].value]
    /\ UNCHANGED <<schedVars, agents, box, router, phase, status, correlationId, budgets,
                   handlers, policies, claims, log, exec>>

TeamNext ==
    \/ TeamCreate
    \/ TeamMemberSettles
    \/ TeamCancel
    \/ TeamManagerReturns
    \/ RunFinally
    \/ TeamReturns

\* One call of createTeam() with the default manager.
TeamSpec == TeamInit /\ [][TeamNext]_vars

\* ------------------------------------------------ a router with one sender
\* Number of sendMessage() calls.
MaxSends == 3
\* The last time at which something happens, in steps of half a second.
MaxTime == 4

\* The values of policy.maxMessagesPerSecond tried.
RateLimits == {None, Some(0), Some(1), Some(2)}

Sender == StaticNames[1]
Recipient == StaticNames[2]

\* A fresh MessageRouter on a fresh EventBus.
RouterInit ==
    /\ queue = <<>>
    /\ running = <<>>
    /\ allJobs = <<>>
    /\ maxParallel = 1
    /\ paused = FALSE
    /\ job = [j \in JobIds |-> NoJob]
    /\ promise = [j \in JobIds |-> NoPromise]
    /\ settleCalls = [j \in JobIds |-> 0]
    /\ body = [j \in JobIds |-> "idle"]
    /\ events = [j \in JobIds |-> <<>>]
    /\ started = <<>>
    /\ runningCancels = 0
    /\ NoPipeline(JobIds, <<>>)

\* registerHandler(name, handler)
RouterRegisterHandler ==
    /\ Recipient \notin handlers
    /\ handlers' = handlers \cup {Recipient}
    /\ UNCHANGED <<schedVars, agents, box, router, phase, status, correlationId, budgets,
                   policies, claims, log, exec, outcome>>

\* setPolicy(name, policy), once for the sender.
RouterSetPolicy ==
    \E k \in RateLimits :
        /\ Sender \notin policies
        /\ policies' = policies \cup {Sender}
        /\ router' = setPolicy(router, Sender, k)
        /\ UNCHANGED <<schedVars, agents, box, phase, status, correlationId, budgets,
                       handlers, claims, log, exec, outcome>>

\* Half a second passes.
RouterTick ==
    /\ router.now < MaxTime * TickMs
    /\ router' = [router EXCEPT !.now = @ + TickMs]
    /\ UNCHANGED <<schedVars, agents, box, phase, status, correlationId, budgets,
                   handlers, policies, claims, log, exec, outcome>>

\* sendMessage(from, to, payload)
RouterSend ==
    /\ router.attempts < MaxSends
    /\ LET done == sendMessage(router, handlers, log, Sender, Recipient)
       IN  router' = done.router /\ log' = done.log
    /\ UNCHANGED <<schedVars, agents, box, phase, status, correlationId, budgets,
                   handlers, policies, claims, exec, outcome>>

RouterNext ==
    \/ RouterRegisterHandler
    \/ RouterSetPolicy
    \/ RouterTick
    \/ RouterSend

\* One sender and one recipient on a MessageRouter, over two seconds.
RouterSpec == RouterInit /\ [][RouterNext]_vars

\* ------------------------------------------------- a claim graph on its own
\* Number of claims added to the graph.
MaxGraphClaims == 2
\* Number of links stored in the graph.
MaxLinks == 1

\* The statements put forward; two claims may carry the same one.
Statements == {"s1", "s2"}

\* The confidence a caller passes to addClaim(), in tenths: the default 0.5,
\* the two ends of the range, and a value above the range.
DefaultConfidence == 5
GraphConfidences == {0, DefaultConfidence, 10, 12}

\* The ids a caller may name: those of the claims and one of no claim.
ClaimIds == 1..(MaxGraphClaims + 1)

\* The claims of the graph under study.
graph == claims[ContextGraph]

\* Number of links stored in the graph.
LinkCount(cs) ==
    LET RECURSIVE upTo(_)
        upTo(n) == IF n = 0 THEN 0 ELSE upTo(n - 1) + Len(cs[n].links)
    IN  upTo(Len(cs))

\* A fresh ClaimGraph on a fresh EventBus.
ClaimInit ==
    /\ queue = <<>>
    /\ running = <<>>
    /\ allJobs = <<>>
    /\ maxParallel = 1
    /\ paused = FALSE
    /\ job = [j \in JobIds |-> NoJob]
    /\ promise = [j \in JobIds |-> NoPromise]
    /\ settleCalls = [j \in JobIds |-> 0]
    /\ body = [j \in JobIds |-> "idle"]
    /\ events = [j \in JobIds |-> <<>>]
    /\ started = <<>>
    /\ runningCancels = 0
    /\ NoPipeline(JobIds, <<>>)

\* What a graph operation leaves behind: the claims, the event when it did
\* not throw, and for its caller the return or the error thrown.
CommitGraph(result, type, arg) ==
    /\ claims' = [claims EXCEPT ![ContextGraph] = result.claims]
    /\ log' = IF result.error = <<>> THEN emit(log, "run", type, None, arg) ELSE log
    /\ outcome' = IF result.error = <<>>
                  THEN [NoOutcome EXCEPT !.state = "fulfilled"]
                  ELSE [NoOutcome EXCEPT !.state = "rejected", !.error = result.error]
    /\ UNCHANGED <<schedVars, agents, box, router, phase, status, correlationId, budgets,
                   handlers, policies, exec>>

\* graph.addClaim(statement, author, [], confidence)
GraphAddClaim ==
    \E statement \in Statements, confidence \in GraphConfidences :
        /\ Len(graph) < MaxGraphClaims
        /\ CommitGraph(GraphResult(addClaim(graph, statement, StaticNames[1], confidence), <<>>),
                       "claim:created", <<ToString(Len(graph) + 1)>>)

\* graph.challengeClaim(target, challenger)
ChallengeCalled(target, challenger) ==
    CommitGraph(challengeClaim(graph, target, challenger),
                "claim:challenged", <<ToString(target), ToString(challenger)>>)

\* graph.supportClaim(target, supporter)
SupportCalled(target, supporter) ==
    CommitGraph(supportClaim(graph, target, supporter),
                "claim:supported", <<ToString(target), ToString(supporter)>>)

\* graph.challengeClaim(targetClaimId, challengerClaimId)
GraphChallenge ==
    \E target, challenger \in ClaimIds :
        /\ LinkCount(graph) < MaxLinks
        /\ ChallengeCalled(target, challenger)

\* graph.supportClaim(targetClaimId, supporterClaimId)
GraphSupport ==
    \E target, supporter \in ClaimIds :
        /\ LinkCount(graph) < MaxLinks
        /\ SupportCalled(target, supporter)

ClaimNext ==
    \/ GraphAddClaim
    \/ GraphChallenge
    \/ GraphSupport

\* Any sequence of addClaim, challengeClaim and supportClaim on one graph.
ClaimSpec == ClaimInit /\ [][ClaimNext]_vars

\* ------------------------------------------------ runs on one AgentBox
\* The units that the caller declares with defineAgent().build().
DeclaredNames == Range(StaticNames)

\* The units named in spawnAgent() calls: a new one and a declared one.
BoxSpawnNames == {SpawnNames[1], StaticNames[1]}

\* The runs whose run() has been called and has not returned.
InFlight(b) == {r \in 1..MaxRuns : b.ctx[r].state \in {"connecting", "executing"}}

\* A fresh AgentBox.
BoxInit ==
    /\ queue = <<>>
    /\ running = <<>>
    /\ allJobs = <<>>
    /\ maxParallel = 1
    /\ paused = FALSE
    /\ job = [j \in JobIds |-> NoJob]
    /\ promise = [j \in JobIds |-> NoPromise]
    /\ settleCalls = [j \in JobIds |-> 0]
    /\ body = [j \in JobIds |-> "idle"]
    /\ events = [j \in JobIds |-> <<>>]
    /\ started = <<>>
    /\ runningCancels = 0
    /\ NoPipeline(JobIds, <<>>)

\* What a call on the AgentBox leaves behind.
CommitBox(b) ==
    /\ box' = b
    /\ UNCHANGED <<schedVars, agents, router, phase, status, correlationId, budgets,
                   handlers, policies, claims, log, exec, outcome>>

\* box.defineAgent(name)...build(), while no run is in flight.
BoxDefineAgent ==
    \E name \in DeclaredNames :
        /\ InFlight(box) = {}
        /\ ~hasAgent(box, name)
        /\ CommitBox([registryRegisterAgent(box, name) EXCEPT !.declared = @ \cup {name}])

\* box.run(task) up to the first await of ctx.run(): a new context becomes
\* the current one.
BoxRun ==
    \E r \in 1..MaxRuns :
        /\ box.ctx[r].state = "none"
        /\ \A q \in 1..(r - 1) : box.ctx[q].state # "none"
        /\ CommitBox([box EXCEPT !.currentContext = r,
                                 !.ctx[r].state = "connecting",
                                 !.ctx[r].declared = box.declared])

\* ctx.run() after connectMCPServers(): materializeAgents() and
\* executeAgents() up to its await.
BoxExecute ==
    \E r \in 1..MaxRuns :
        /\ box.ctx[r].state = "connecting"
        /\ CommitBox(executeOnContext(box, r))

\* An executor of run r calls runtime.spawnAgent(definition, task).
BoxBodySpawns ==
    \E r \in 1..MaxRuns, name \in BoxSpawnNames :
        /\ box.ctx[r].state = "executing"
        /\ box.spawnCalls < MaxBoxSpawns
        /\ CommitBox(spawnOnContext(box, r, name))

\* box.spawnAgent(definition, task): forwarded to the current context, or
\* an error when there is none.
BoxSpawnAgent ==
    \E name \in BoxSpawnNames :
        /\ box.spawnCalls < MaxBoxSpawns
        /\ box.currentContext # 0
        /\ CommitBox(spawnOnContext(box, box.currentContext, name))

\* box.pause(), resume(), cancel() or injectMessage(): forwarded to the
\* current context; without one the first three do nothing and the last
\* throws.
BoxControl ==
    /\ box.controls < MaxControls
    /\ CommitBox([box EXCEPT !.controls = @ + 1,
                             !.missed = @ \/ (box.currentContext = 0 /\ InFlight(box) # {})])

\* ctx.run() of run r settles and the finally block of box.run() runs.
BoxReturn ==
    \E r \in 1..MaxRuns :
        /\ box.ctx[r].state = "executing"
        /\ CommitBox([box EXCEPT !.currentContext = 0, !.ctx[r].state = "returned"])

BoxNext ==
    \/ BoxDefineAgent
    \/ BoxRun
    \/ BoxExecute
    \/ BoxBodySpawns
    \/ BoxSpawnAgent
    \/ BoxControl
    \/ BoxReturn

\* Calls of run(), spawnAgent() and the control API on one AgentBox; the
\* runs may overlap.
BoxSpec == BoxInit /\ [][BoxNext]_vars

\* ------------------------------------------------- steps, as seen from outside
\* The step is a call of cancel(jobId).
CancelCalled(jobId) ==
    /\ Commit(cancel(State, jobId))
    /\ runningCancels' = IF hitsRunning(State, jobId) THEN runningCancels + 1
                                                      ELSE runningCancels

\* The step is a call of cancelAll().
CancelAllCalled == Commit(cancelAll(State)) /\ UNCHANGED runningCancels

\* The step is a call of enqueue().
EnqueueCalled == Len(allJobs') = Len(allJobs) + 1

\* The step is the finally callback of jobId.
FinallyRan(jobId) == body[jobId] = "settled" /\ body'[jobId] = "done"

\* The step is the then or the catch callback of jobId.
BodySettled(jobId) == body[jobId] = "executing" /\ body'[jobId] = "settled"

\* jobId was cancelled before it was ever started.
CancelledWhilePending(jobId) ==
    job[jobId].status = "cancelled" /\ body[jobId] = "idle"

\* The promise of jobId is rejected with the cancellation error.
RejectedAsCancelled(p, jobId) ==
    p[jobId].state = "rejected" /\ p[jobId].value = CancelMessage(jobId)

\* ----------------------------------------------------------------- claims

\* C1: whatever the concurrency bound N >= 1 and whatever the sequence of
\* enqueue, body completion or failure, pause, resume, cancel and cancelAll,
\* the running set never holds more than N jobs.
C1_RunningWithinBound == Len(running) <= maxParallel

\* C1 witness: every slot is taken while another job waits in the queue.
C1_Witness == Len(running) = maxParallel /\ queue # <<>>

\* C2: no job is in the queue and in the running set at once, a job in the
\* queue has status pending, and a job enters the running set only with
\* status running.
C2_QueueRunningDisjoint ==
    /\ [](\A j \in JobIds :
            /\ ~(Has(queue, j) /\ Has(running, j))
            /\ Has(queue, j) => job[j].status = "pending")
    /\ [][\A j \in JobIds :
            (~Has(running, j) /\ Has(running', j)) => job'[j].status = "running"]_vars

\* C2 witness: one job runs while another one waits.
C2_Witness ==
    \E j, k \in JobIds :
        /\ Has(running, j) /\ job[j].status = "running"
        /\ Has(queue, k) /\ job[k].status = "pending"

C4_NoAdmissionWhilePaused ==
    [][(paused /\ paused') =>
          /\ started' = started
          /\ \A j \in JobIds :
               /\ Has(running', j) => Has(running, j)
               /\ job'[j].status = "running" => job[j].status = "running"
               /\ (job[j].status = "pending"
                     /\ (EnqueueCalled \/ \E k \in JobIds : FinallyRan(k)))
                  => (job'[j].status = "pending" /\ Has(queue', j))]_vars

\* C4 witness: paused with a job waiting and a free slot, after a running job
\* finished.
C4_Witness ==
    /\ paused
    /\ queue # <<>>
    /\ Len(running) < maxParallel
    /\ \E j \in JobIds : body[j] = "done"

\* C5: cancel(jobId) on a pending job removes it from the queue, sets its
\* status to cancelled and rejects its future with an error whose message
\* contains the job id; afterwards the job is never started.
C5_CancelPending ==
    /\ [](\A j \in JobIds : CancelledWhilePending(j) =>
            /\ ~Has(queue, j)
            /\ ~Has(running, j)
            /\ ~Has(started, j)
            /\ promise[j].state = "rejected"
            /\ Contains(promise[j].value, ToString(j)))
    /\ [][\A j \in JobIds :
            /\ (Has(queue, j) /\ CancelCalled(j)) =>
                  /\ ~Has(queue', j)
                  /\ job'[j].status = "cancelled"
                  /\ body'[j] = "idle"
                  /\ promise'[j].state = "rejected"
                  /\ Contains(promise'[j].value, ToString(j))
            /\ CancelledWhilePending(j) =>
                  /\ job'[j].status = "cancelled"
                  /\ body'[j] = "idle"]_vars

\* C5 witness: a job was cancelled while pending, and a job enqueued with it
\* has run to its end since.
C5_Witness ==
    \E j, k \in JobIds :
        /\ CancelledWhilePending(j)
        /\ RejectedAsCancelled(promise, j)
        /\ body[k] = "done"

\* C6: for a job cancelled while pending, job:cancelled is emitted exactly
\* once over the whole execution, also when cancel(jobId) or cancelAll() is
\* called afterwards.
C6_CancelledEventOnce ==
    /\ [](\A j \in JobIds :
            CancelledWhilePending(j) => Count(events[j], "cancelled") = 1)
    /\ [][\A j \in JobIds :
            CancelledWhilePending(j) => events'[j] = events[j]]_vars

\* C6 witness: a job cancelled while pending, and a later cancellation of
\* another job.
C6_Witness ==
    \E j, k \in JobIds :
        /\ j # k
        /\ CancelledWhilePending(j)
        /\ events[j] = <<"scheduled", "cancelled">>
        /\ Count(events[k], "cancelled") >= 1

C10_TerminalStatusSetOnce ==
    [][\A j \in JobIds :
         job[j].status \in TerminalStatus => job'[j].status = job[j].status]_vars

C12_ForwardProgress ==
    \A j \in JobIds :
        (job[j].status # "none") ~>
            (Has(started, j) /\ promise[j].state \in {"fulfilled", "rejected"})

\* C12 witness: with one slot every job has run to its end, the later ones
\* after waiting in the queue.
C12_Witness ==
    /\ maxParallel = 1
    /\ Len(started) = MaxJobs
    /\ \A j \in JobIds : body[j] = "done" /\ promise[j].state # "pending"

\* ------------------------------------------------ the run, seen from outside
\* The statically declared units' jobs.
StaticJobIds == Range(StaticJobs(exec))

\* An event of this type was emitted about the unit.
HasEvent(name, type) == \E i \in 1..Len(log[name]) : log[name][i].type = type

\* run() has resolved.
RunResolved == phase = "finished" /\ outcome.state = "fulfilled"

\* Nothing is left to happen: run() is over and no job is queued or in flight.
Quiescent ==
    /\ phase \in {"finished", "rejected"}
    /\ queue = <<>>
    /\ \A j \in DOMAIN exec : body[j] \in {"idle", "done"}

\* C13: when the job of a statically declared unit fails, the other static
\* units' jobs still run to their own outcome, run() resolves with status
\* completed, the failed job is in jobResults with status failed and a string
\* error, and an agent:error event naming the unit was emitted.
C13_FailureIsolated ==
    phase = "finished" =>
        /\ outcome.state = "fulfilled"
        /\ outcome.status = "completed"
        /\ status = "completed"
        /\ \A j \in StaticJobIds :
             /\ Has(started, j)
             /\ body[j] = "done"
             /\ Has(outcome.jobResults, j)
             /\ job[j].status \in {"completed", "failed"}
             /\ job[j].status = "completed" =>
                   /\ promise[j] = [state |-> "fulfilled", value |-> job[j].result]
                   /\ ~HasEvent(exec[j].unit, "agent:error")
             /\ job[j].status = "failed" =>
                   /\ Len(job[j].error) > 0
                   /\ promise[j] = [state |-> "rejected", value |-> job[j].error]
                   /\ \E e \in Range(log[exec[j].unit]) :
                        e.type = "agent:error" /\ e.arg = job[j].error

\* C13 witness: run() resolved after the executor of one static unit threw
\* and the executor of the other returned.
C13_Witness ==
    /\ RunResolved
    /\ \E j, k \in StaticJobIds :
         /\ job[j].status = "failed" /\ job[j].error = <<"boom">>
         /\ HasEvent(exec[j].unit, "agent:error")
         /\ job[k].status = "completed" /\ job[k].result = <<"result">>

\* C14 as stated: when a unit's budget check fails at job start, the unit's
\* body is never invoked and no agent:started event is emitted for it, its
\* job ends with status failed and an error containing "exceeded token
\* budget", and an agent:error event for that unit is emitted.
C14_BudgetFailureReported ==
    \A j \in DOMAIN exec :
        exec[j].thrown # <<>> =>
            /\ exec[j].state \in {"threw", "over"}
            /\ ~HasEvent(exec[j].unit, "agent:started")
            /\ ~HasEvent(exec[j].unit, "agent:thinking")
            /\ body[j] = "done" =>
                  /\ job[j].status = "failed"
                  /\ Contains(job[j].error, "exceeded token budget")
            /\ Quiescent => HasEvent(exec[j].unit, "agent:error")

\* The unit breaks a rule that validation is there to enforce.
Violates(agent) ==
    \/ \E tool \in Range(agent.tools) : tool \notin RegisteredTools
    \/ \E mcp \in Range(agent.mcpServers) : mcp \notin RegisteredMCPs
    \/ /\ agent.policy.toolAllowlist # None
       /\ \E tool \in Range(agent.tools) : tool \notin Range(agent.policy.toolAllowlist[1])

\* run() has got past validate().
ValidationPassed == phase \notin {"idle", "rejected"}

\* C15 as stated: if any statically declared unit references an unknown tool
\* or an unknown external source, or violates its tool allowlist, run()
\* rejects, and at that point no job has been enqueued, no message handler or
\* rate-limit policy installed and no budget record registered.
C15_FailFastValidation ==
    (phase # "idle" /\ \E i \in 1..Len(agents) : Violates(agents[i])) =>
        /\ phase = "rejected"
        /\ outcome.state = "rejected"
        /\ Len(outcome.error) > 0
        /\ status = "failed"
        /\ allJobs = <<>>
        /\ handlers = {}
        /\ policies = {}
        /\ \A n \in UnitNames : budgets[n] = None

\* C16 as stated: for every statically declared unit whose policy sets a
\* toolAllowlist, validation passes only if the allowlist is a superset of the
\* unit's assigned tool names, the empty allowlist included.
C16_AllowlistSuperset ==
    ValidationPassed =>
        \A i \in 1..Len(agents) :
            agents[i].policy.toolAllowlist # None =>
                Range(agents[i].tools) \subseteq Range(agents[i].policy.toolAllowlist[1])

\* C17 as stated: on the success path the jobResults of run() hold every
\* job ever enqueued on the run's scheduler, static or spawned at any depth,
\* each exactly once and in enqueue order.
C17_JobResultsComplete ==
    outcome.state = "fulfilled" => outcome.jobResults = allJobs

\* C18 as stated: every event emitted during a run, by the scheduler for
\* any job, about any unit, for any claim, carries the run's correlation id.
C18_OneCorrelationId ==
    /\ \A j \in DOMAIN exec : events[j] # <<>> => meta(exec[j].correlationId) = RunId
    /\ \A n \in DOMAIN log : \A i \in 1..Len(log[n]) : log[n][i].correlationId = RunId

\* C19: when a running unit calls spawnAgent(), agent:spawned naming the
\* child and the parent is emitted before the child's body starts, and the
\* child's job is enqueued on the scheduler of the parent: it waits in the
\* same FIFO queue and counts against the same concurrency bound.
C19_SpawnOnSameScheduler ==
    /\ \A j \in DOMAIN exec :
         exec[j].kind = "spawned" =>
            /\ \E k \in DOMAIN exec : exec[k].unit = exec[j].parent /\ Has(started, k)
            /\ Len(log[exec[j].unit]) > 0
            /\ log[exec[j].unit][1] = Event("agent:spawned", RunId, <<exec[j].parent>>)
            /\ Len(OfType(log[exec[j].unit], "agent:spawned")) = 1
            /\ Has(allJobs, j)
            /\ job[j].status = "pending" <=> Has(queue, j)
            /\ Has(started, j) <=> body[j] # "idle"
            /\ Has(queue, j) => Len(running) = maxParallel
    /\ Len(running) <= maxParallel
    /\ \A i, k \in 1..Len(queue) :
         i < k => FindIndex(allJobs, queue[i]) < FindIndex(allJobs, queue[k])
    /\ \A i, k \in 1..Len(started) :
         i < k => FindIndex(allJobs, started[i]) < FindIndex(allJobs, started[k])
    /\ \A i \in 1..Len(started), k \in 1..Len(queue) :
         FindIndex(allJobs, started[i]) < FindIndex(allJobs, queue[k])

\* C19 witness: with one slot, a spawned unit waited in the queue behind a
\* static unit enqueued before it, and its body has started since.
C19_Witness ==
    /\ maxParallel = 1
    /\ \E j \in DOMAIN exec :
         /\ exec[j].kind = "spawned"
         /\ FindIndex(started, j) = Len(StaticNames) + 1
         /\ OfType(log[exec[j].unit], "agent:started") # <<>>
         /\ log[exec[j].unit][1].arg = <<exec[j].parent>>

\* The claim that a claim:created event filed under the unit announces is
\* among the claims cs.
Announced(cs, name, e) ==
    \E c \in Range(cs) : c.author = name /\ <<ToString(c.id)>> = e.arg

\* C20: all units of a run share one claim graph: a claim added by any unit,
\* static or spawned at any depth, is in listClaims() of every unit that runs
\* afterwards, and every claim added before finalize is in the claims of the
\* run's result.
C20_SharedClaimGraph ==
    /\ [](\A n \in UnitNames : \A e \in Range(OfType(log[n], "claim:created")) :
            \A j \in DOMAIN exec :
                exec[j].state = "running" =>
                    Announced(listClaims(claims[exec[j].claimGraph]), n, e))
    /\ [][(phase = "reported" /\ phase' = "finished") =>
            /\ outcome'.state = "fulfilled"
            /\ \A n \in UnitNames : \A e \in Range(OfType(log[n], "claim:created")) :
                  Announced(outcome'.claims, n, e)]_vars

\* C20 witness: run() resolved with a claim that a spawned unit added, while
\* another executor was running and could list it.
C20_Witness ==
    /\ RunResolved
    /\ \E c \in Range(outcome.claims) :
         \E j, k \in DOMAIN exec :
            /\ exec[j].kind = "spawned" /\ exec[j].unit = c.author
            /\ j # k /\ exec[k].state = "running"
            /\ c \in Range(listClaims(claims[exec[k].claimGraph]))

\* C21: a claim's confidence stays within [0, 1] after any sequence of
\* addClaim, challengeClaim and supportClaim: a successful challenge lowers
\* the target by 0.1 and a successful support raises it by 0.1, both clamped
\* to the range.
C21_ConfidenceInRange ==
    /\ [](\A c \in Range(graph) :
            ConfidenceFloor <= c.confidence /\ c.confidence <= ConfidenceCeiling)
    /\ [][\A i \in 1..Len(graph) :
            /\ (\E k \in ClaimIds : graph' = challengeClaim(graph, i, k).claims
                                      /\ challengeClaim(graph, i, k).error = <<>>)
               => graph'[i].confidence = Max(ConfidenceFloor, graph[i].confidence - ConfidenceStep)
            /\ (\E k \in ClaimIds : graph' = supportClaim(graph, i, k).claims
                                      /\ supportClaim(graph, i, k).error = <<>>)
               => graph'[i].confidence = Min(ConfidenceCeiling, graph[i].confidence + ConfidenceStep)]_vars

\* Some claim other than c holds a "challenges" link that points at c.
ChallengedByOther(cs, c) ==
    \E d \in Range(cs) :
        /\ d.id # c.id
        /\ \E l \in Range(d.links) : l.type = "challenges" /\ l.targetClaimId = c.id

\* C22: in summarize(), a claim is listed in conflicts if and only if at
\* least one other claim holds a challenges link pointing at it, and in
\* consensus if and only if its confidence is at least 0.7 and it is not in
\* conflicts, in every reachable graph, a claim that challenges itself
\* included.
C22_SummaryMembership ==
    \A c \in Range(graph) :
        /\ c \in Range(conflictClaims(graph)) <=> ChallengedByOther(graph, c)
        /\ c \in Range(consensusClaims(graph)) <=>
              (c.confidence >= ConsensusThreshold /\ c \notin Range(conflictClaims(graph)))

\* C23 as stated: the consensus and the conflicts list of summarize() have
\* no entry in common, also when two claims carry the same statement.
C23_ListsDisjoint == Range(consensus(graph)) \cap Range(conflicts(graph)) = {}

\* C23: no claim contributes to both the consensus and the conflicts list of
\* summarize(); the entries are statement texts, so a text carried by two
\* claims can stand in both lists.
C23_ClaimsDisjoint == Range(consensusClaims(graph)) \cap Range(conflictClaims(graph)) = {}

\* C23 witness: two claims with the same statement, one in the consensus and
\* the other, challenged by it, in the conflicts.
C23_Witness ==
    \E c \in Range(consensusClaims(graph)), d \in Range(conflictClaims(graph)) :
        /\ c.id # d.id
        /\ c.statement = d.statement
        /\ d.confidence >= ConsensusThreshold

\* The step is a call of pause() on a scheduler that was not paused.
PauseCalled == ~paused /\ paused'

\* The step is a call of resume() on a paused scheduler.
ResumeCalled == paused /\ ~paused'

\* C29: pause() changes only the admission flag: the running set, the queue
\* and every job's status stay as they were; a job that was running still
\* completes and settles its future while the scheduler is paused; and
\* resume() at once admits min(free slots, queue length) jobs from the head
\* of the queue.
C29_PauseFrame ==
    /\ [][PauseCalled =>
            /\ running' = running
            /\ queue' = queue
            /\ \A j \in JobIds : job'[j].status = job[j].status
            /\ promise' = promise
            /\ body' = body]_vars
    /\ [][\A j \in JobIds :
            (paused /\ BodySettled(j)) =>
               /\ paused'
               /\ job'[j].status \in {"completed", "failed"}
               /\ promise'[j].state \in {"fulfilled", "rejected"}]_vars
    /\ [][ResumeCalled =>
            LET n == Min(maxParallel - Len(running), Len(queue))
            IN  /\ started' = started \o SubSeq(queue, 1, n)
                /\ running' = running \o SubSeq(queue, 1, n)
                /\ queue' = SubSeq(queue, n + 1, Len(queue))
                /\ \A i \in 1..n : job'[queue[i]].status = "running"]_vars

\* C29 witness: the scheduler is paused, a running job has settled its
\* future and completed, and another job waits.
C29_Witness ==
    /\ paused
    /\ queue # <<>>
    /\ \E j \in JobIds :
          /\ Has(running, j)
          /\ body[j] = "settled"
          /\ job[j].status \in {"completed", "failed"}

\* C30: the scheduler is work-conserving: after every enqueue, completion,
\* resume, cancel and cancelAll step, a scheduler that is not paused and has
\* a job waiting has all N slots taken.
C30_WorkConserving ==
    (~paused /\ queue # <<>>) => Len(running) = maxParallel

\* C30 witness: a job waits while every slot is taken, one of them by a job
\* that was cancelled while running and has not finished yet.
C30_Witness ==
    /\ ~paused
    /\ queue # <<>>
    /\ Len(running) = maxParallel
    /\ \E j \in JobIds : Has(running, j) /\ job[j].status = "cancelled"

\* The unit has a limit set that its accumulated usage has reached.
LimitReached(b, name) ==
    /\ b[name] # None
    /\ \/ /\ b[name][1].policy.maxTokens # None
          /\ b[name][1].tokensUsed >= b[name][1].policy.maxTokens[1]
       \/ /\ b[name][1].policy.maxCost # None
          /\ b[name][1].costUsed >= b[name][1].policy.maxCost[1]

\* The step invokes the body of jobId.
BodyInvoked(jobId) == body[jobId] = "idle" /\ body'[jobId] = "executing"

\* C24: checkBudget(name) throws if and only if the unit has a set limit
\* that its accumulated usage has reached; it never throws for a unit with
\* no limit set or for an unregistered unit, and it changes no counter.
C24_CheckBudget ==
    /\ [](\A name \in UnitNames :
            /\ checkBudget(budgets, name) # <<>> <=> LimitReached(budgets, name)
            /\ budgets[name] = None => checkBudget(budgets, name) = <<>>
            /\ (budgets[name] # None /\ budgets[name][1].policy.maxTokens = None
                                     /\ budgets[name][1].policy.maxCost = None)
                  => checkBudget(budgets, name) = <<>>)
    /\ [](\A j \in DOMAIN exec :
            exec[j].kind # "none" => execute(Pipe, j).budgets = budgets)
    /\ [][\A j \in DOMAIN exec :
            BodyInvoked(j) =>
               /\ exec'[j].state = "threw" <=> LimitReached(budgets', exec'[j].unit)
               /\ \A name \in UnitNames :
                     (budgets[name] # None /\ name # exec'[j].unit)
                        => getUsage(budgets', name) = getUsage(budgets, name)]_vars

\* C24 witness: the body of a unit threw on a limit above zero that its usage
\* had reached, while a unit without limits has usage and passes the check.
C24_Witness ==
    \E j \in DOMAIN exec, name \in UnitNames :
        /\ exec[j].state = "threw"
        /\ budgets[exec[j].unit] # None
        /\ budgets[exec[j].unit][1].tokensUsed + budgets[exec[j].unit][1].costUsed > 0
        /\ budgets[name] # None
        /\ budgets[name][1].policy.maxTokens = None
        /\ budgets[name][1].policy.maxCost = None
        /\ budgets[name][1].tokensUsed > 0
        /\ checkBudget(budgets, name) = <<>>

\* C25: a unit's tokensUsed and costUsed never decrease during a run: only
\* clear() lowers or resets them; spawning a unit whose name is known
\* already does not reset its accumulated usage.
C25_CountersMonotone ==
    [][\A name \in UnitNames :
         budgets[name] # None =>
            \/ budgets' = clear(budgets)
            \/ /\ budgets'[name] # None
               /\ budgets'[name][1].tokensUsed >= budgets[name][1].tokensUsed
               /\ budgets'[name][1].costUsed >= budgets[name][1].costUsed]_vars

\* The sends of a unit that succeeded within the second that ends at time t.
SentWithin(name, t) ==
    Cardinality({i \in 1..Len(router.sent[name]) :
                   router.sent[name][i] <= t /\ t - router.sent[name][i] < WindowMs})

\* No second up to now holds more sends of the sender than its limit allows.
WithinLimit ==
    router.limit[Sender] # None =>
        \A tick \in 0..MaxTime :
            SentWithin(Sender, tick * TickMs) <= router.limit[Sender][1]

\* The step is a call of sendMessage().
SendCalled == router'.attempts = router.attempts + 1

\* The call of sendMessage() in this step returned a message.
SendSucceeded(name) == Len(router'.sent[name]) = Len(router.sent[name]) + 1

\* C26: for a unit with maxMessagesPerSecond = k, k sends succeed within any
\* trailing window of one second and the next send in that window is
\* rejected with a rate-limit error; once the earlier sends are more than
\* one second old a further send succeeds again.
C26_RateLimit ==
    /\ [][(router.limit[Sender] # None /\ WithinLimit) => WithinLimit']_vars
    /\ [][(SendCalled /\ router.limit[Sender] # None) =>
            LET k == router.limit[Sender][1]
                before == SentWithin(Sender, router.now)
            IN  /\ before < k => (SendSucceeded(Sender) /\ router'.error = <<>>)
                /\ before >= k =>
                      /\ ~SendSucceeded(Sender)
                      /\ Contains(router'.error, "Rate limit exceeded for agent")
                      /\ log' = log
                /\ (k >= 1 /\ \A i \in 1..Len(router.sent[Sender]) :
                                router.now - router.sent[Sender][i] > WindowMs)
                      => SendSucceeded(Sender)]_vars

\* C26 witness: with a limit of one message per second, a send succeeded, the
\* next one in the same second was rejected, and a send more than a second
\* after the first succeeded.
C26_Witness ==
    /\ router.limit[Sender] = Some(1)
    /\ router.attempts = 3
    /\ Len(router.sent[Sender]) = 2
    /\ router.sent[Sender][2] - router.sent[Sender][1] > WindowMs

\* The statuses that end a run.
TerminalRunStatus == {"completed", "cancelled", "failed"}

\* C27: the pipeline status follows idle -> running -> {completed,
\* cancelled, failed}: a terminal status is never left or overwritten, and
\* paused is entered only from running.
C27_StatusMachine ==
    [][/\ status \in TerminalRunStatus => status' = status
       /\ (status' = "paused" /\ status # "paused") => status = "running"
       /\ (status = "idle" /\ status' # "idle") => status' = "running"
       /\ status' = "idle" => status = "idle"]_vars

\* The future of the member's job was rejected.
MemberFailed(jobId) == promise[jobId].state = "rejected"

BodiesInFlight == {j \in JobIds : body[j] = "executing"}

\* C31 as stated: at any instant at most N job bodies have been started and
\* have not yet settled, over every sequence of operations, cancelAll()
\* followed by further enqueues included.
C31_BodiesWithinBound == Cardinality(BodiesInFlight) <= maxParallel

\* The body of jobId is waiting for the future of a spawned child that has
\* not been admitted yet. The manager is the one body of a team that awaits
\* its children.
WaitsOnPendingChild(jobId) ==
    /\ jobId = ManagerJob
    /\ body[jobId] = "executing"
    /\ \E i \in 1..Len(MemberJobs) :
           /\ job[MemberJobs[i]].status = "pending"
           /\ promise[MemberJobs[i]].state = "pending"

\* C32 as stated: no reachable state has all N slots held by bodies that
\* wait on jobs which are still pending, so a run whose bodies await the
\* children they spawn always finishes.
C32_NoSlotHeldByWaiters ==
    ~(/\ Len(running) = maxParallel
      /\ \A j \in Range(running) : WaitsOnPendingChild(j))

\* An id that no claim of the graph carries.
MissingId(id) == ~hasClaim(graph, id)

\* The call left the graph, its links and confidences and the events as
\* they were and threw the not-found error that names id.
FailedNotFound(id) ==
    /\ claims' = claims
    /\ log' = log
    /\ outcome'.state = "rejected"
    /\ outcome'.error = <<"Claim not found", ToString(id)>>

\* C33: challengeClaim and supportClaim called with a target or a source id
\* that is not in the graph fail with the not-found error naming the missing
\* id (the target when both are missing) and leave the graph unchanged: no
\* link is appended, no confidence changes and no event is emitted.
C33_NotFoundLeavesGraph ==
    [][\A target, source \in ClaimIds :
         (MissingId(target) \/ MissingId(source)) =>
           /\ ChallengeCalled(target, source) =>
                FailedNotFound(IF MissingId(target) THEN target ELSE source)
           /\ SupportCalled(target, source) =>
                FailedNotFound(IF MissingId(target) THEN target ELSE source)]_vars

\* A call with a missing id has failed on a graph that holds a claim.
C33_Witness ==
    /\ graph # <<>>
    /\ outcome.state = "rejected"
    /\ outcome.error = <<"Claim not found", ToString(Len(graph) + 1)>>
    /\ LinkCount(graph) = 0
    /\ OfType(log["run"], "claim:challenged") = <<>>
    /\ OfType(log["run"], "claim:supported") = <<>>

\* What the call of sendMessage() in this step did to the outside, in order.
SendEffects == SubSeq(router'.effects, Len(router.effects) + 1, Len(router'.effects))

\* The events of the given type filed under the unit, after the step and
\* before it.
Emitted(name, type) ==
    Len(OfType(log'[name], type)) - Len(OfType(log[name], type))

C35_ControlSetsStatus ==
    [][/\ CtxPause => status' = "paused"
       /\ CtxResume => status' = "running"
       /\ CtxCancel => status' = "cancelled"]_vars

\* C35 witness: pause() and then resume() were called on a context whose
\* run() has not been called, and the status is running.
C35_Witness ==
    /\ phase = "idle"
    /\ outcome.state = "pending"
    /\ allJobs = <<>>
    /\ ~paused
    /\ status = "running"

\* C36 as stated: every job in the jobResults of a run that returned carries
\* a terminal status, the jobs spawned by a body that did not await them
\* included.
C36_JobResultsTerminal ==
    outcome.state = "fulfilled" =>
        \A i \in 1..Len(outcome.jobResults) :
            job[outcome.jobResults[i]].status \in TerminalStatus

\* cancel() was called while run() was in its execute phase and is the last
\* call of the control API: the status is cancelled and cancelAll() rejected
\* the future of a statically declared job.
CancelledDuringExecute ==
    /\ phase \in {"awaiting", "reported"}
    /\ status = "cancelled"
    /\ \E h \in Range(StaticJobs(exec)) : RejectedAsCancelled(promise, h)

\* run() settles in this step.
RunSettles == outcome.state = "pending" /\ outcome'.state # "pending"

\* C37 as stated: when cancel() is called on the pipeline while run() is in
\* its execute phase, run() settles with a final status of cancelled: the
\* result's status and the run:completed event do not report completed.
C37_CancelledRunReportsCancelled ==
    [][(CancelledDuringExecute /\ RunSettles) =>
          /\ outcome'.status = "cancelled"
          /\ status' = "cancelled"
          /\ log'["run"][Len(log'["run"])].arg = <<"cancelled">>]_vars

\* The positions of the events of one type among the events of a job.
Positions(evs, type) == {i \in 1..Len(evs) : evs[i] = type}

\* C38 as stated: for each job the events job:cancelled and job:completed
\* are mutually exclusive, no job:completed follows a job:cancelled, and
\* job:cancelled is emitted at most once per job over any sequence of cancel
\* and cancelAll calls.
C38_CancelledExcludesCompleted ==
    \A j \in JobIds :
        /\ Positions(events[j], "cancelled") = {} \/ Positions(events[j], "completed") = {}
        /\ Cardinality(Positions(events[j], "cancelled")) <= 1

\* C39 as stated: while at least one run() call on the AgentBox has not
\* returned, the current context is not null and is not the context of a run
\* that has already returned, so that pause, resume, cancel, injectMessage
\* and spawnAgent always reach a context whose run is in flight.
C39_CurrentContextInFlight ==
    InFlight(box) # {} =>
        /\ box.currentContext \in InFlight(box)
        /\ ~box.missed

\* The units of the jobs of one kind on the context of run r, in order.
UnitsOf(r, kind) ==
    LET of == SelectSeq(box.ctx[r].jobs, LAMBDA j : j.kind = kind)
    IN  [i \in 1..Len(of) |-> of[i].unit]

\* The jobs enqueued by spawnAgent() calls, over all runs.
SpawnedJobs ==
    LET RECURSIVE upTo(_)
        upTo(r) == IF r = 0 THEN 0 ELSE upTo(r - 1) + Len(UnitsOf(r, "spawned"))
    IN  upTo(MaxRuns)

\* C40 as stated: the statically enqueued jobs of a run are one for each
\* unit that the caller had declared when run() was called and no others, a
\* unit registered by spawnAgent in an earlier run is not among them, and
\* each spawnAgent call enqueues exactly one job.
C40_StaticSetIsDeclared ==
    /\ \A r \in 1..MaxRuns :
          box.ctx[r].state \in {"executing", "returned"} =>
              /\ Range(UnitsOf(r, "static")) = box.ctx[r].declared
              /\ Len(UnitsOf(r, "static")) = Cardinality(box.ctx[r].declared)
    /\ SpawnedJobs = box.spawnCalls
====
